---- MODULE Spec2Model ----
(***************************************************************************)
(* Email monitoring and notification pipeline of the spam_detection        *)
(* service: the per-user monitoring task (app/workers/tasks.py), the IMAP  *)
(* session it drives (app/services/imap_service.py), the Redis pub/sub     *)
(* channel it publishes on and the SSE stream that forwards the channel to *)
(* a client (app/api/monitoring.py).                                       *)
(***************************************************************************)
EXTENDS Integers, Sequences, FiniteSets, TLC

(* ------------------------------------------------------------------ *)
(* Bounds                                                             *)
(* ------------------------------------------------------------------ *)
\* Message uids a mailbox may hold: 1..MaxMsgs.
MaxMsgs == 2
\* Registered users are 1..NumUsers; 0 is an id with no record.
NumUsers == 2
\* Commands and calls the environment lets fail in one behaviour.
MaxFaults == 2
\* SSE requests in one behaviour of BusSpec.
MaxStreams == 1

\* limit passed by get_unread_emails to list_emails.
UnreadLimit == 100

Msgs == 1..MaxMsgs
\* A behaviour follows one invocation of monitor_user_emails, from any state
\* earlier invocations may have left the mailbox and the user row in.
JobIds == {1}
StreamIds == 1..MaxStreams
UserIds == 1..NumUsers
TaskUserIds == 0..NumUsers

\* Texts an e-mail may carry; the classifier is a frozen function of the text.
Texts == {"ham", "spam"}

VARIABLES
    users,      \* the users table: id -> [is_active, is_monitoring, last_sync_time]
    inbox,      \* INBOX of each user: uid -> [text, seen, deleted]
    spam,       \* Spam folder of each user: uid of the original -> number of copies
    jobs,       \* each task invocation: its position and locals
    log,        \* per invocation: IMAP commands issued and publish calls made, in order
    clock,      \* the value datetime.utcnow() returned last
    streams,    \* each SSE request: its position, its pub/sub buffer, what it emitted
    published,  \* per channel: the events the Redis server accepted, in order
    faults,     \* how many commands and calls have failed so far
    calls,      \* calls made on a mail session outside the task, with what they returned
    session,    \* an IMAPService object used outside the task, and the commands it issued
    trash       \* Trash folder of that object's user: uid -> [of, seen, deleted]

vars == <<users, inbox, spam, jobs, log, clock, streams, published, faults, calls, session,
          trash>>

\* A folder without messages.
EmptyFolder == [m \in {} |-> [of |-> 0, seen |-> FALSE, deleted |-> FALSE]]

(* ------------------------------------------------------------------ *)
(* Sequences                                                          *)
(* ------------------------------------------------------------------ *)
Min(a, b) == IF a < b THEN a ELSE b

Range(s) == {s[i] : i \in DOMAIN s}

Reverse(s) == [i \in 1..Len(s) |-> s[Len(s) + 1 - i]]

RECURSIVE Ascending(_)
Ascending(S) ==
    IF S = {} THEN <<>>
    ELSE LET m == CHOOSE x \in S : \A y \in S : x <= y
         IN <<m>> \o Ascending(S \ {m})

Orders(S) ==
    {p \in [1..Cardinality(S) -> S] : \A i, k \in DOMAIN p : i # k => p[i] # p[k]}

\* The entries of a log that record a failure.
Failed(entries) == {i \in DOMAIN entries : ~entries[i].ok}

(* ------------------------------------------------------------------ *)
(* Log entries and events                                             *)
(* ------------------------------------------------------------------ *)
Cmd(op, id, arg, ok) ==
    [op |-> op, id |-> id, arg |-> arg, ok |-> ok, conf |-> 0]

Pub(event, ok) ==
    [op |-> "PUBLISH", id |-> event.email_id, arg |-> event.event_type,
     ok |-> ok, conf |-> event.confidence]

\* The event dictionaries built in monitor_user_emails; email_id 0 and
\* confidence 0 stand for an absent key.  user is the user_id argument of the
\* publish call that carried the event.
SpamDetected(user_id, m, confidence) ==
    [event_type |-> "spam_detected", email_id |-> m, confidence |-> confidence,
     user |-> user_id]

NewEmail(user_id, m) ==
    [event_type |-> "new_email", email_id |-> m, confidence |-> 0, user |-> user_id]

EmailError(user_id, m) ==
    [event_type |-> "error", email_id |-> m, confidence |-> 0, user |-> user_id]

JobError(user_id) ==
    [event_type |-> "error", email_id |-> 0, confidence |-> 0, user |-> user_id]

(* ------------------------------------------------------------------ *)
(* Classifier (app/services/spam_classifier.py)                       *)
(* ------------------------------------------------------------------ *)
\* The frozen model as a table over Texts: <<is_spam, confidence in percent>>.
predict_with_confidence(email_text) ==
    IF email_text = "spam" THEN <<TRUE, 92>> ELSE <<FALSE, 88>>

(* ------------------------------------------------------------------ *)
(* Mail session (app/services/imap_service.py)                        *)
(* ------------------------------------------------------------------ *)
\* No folder is selected.
NoSelection == [folder |-> "", readonly |-> TRUE]

\* IMAPService.__init__: self.client is None; no connection, nothing issued.
NoSession ==
    [client |-> FALSE, conn |-> "none", selected |-> NoSelection, issued |-> <<>>]

\* SEARCH UNSEEN or SEARCH ALL on the selected folder: uids, ascending.
search(box, only_unread) ==
    Ascending({m \in DOMAIN box : only_unread => ~box[m].seen})

\* A bound of a Python slice over a list of length n: a negative bound counts
\* from the end, and both ends are clamped to the list.
SliceIndex(i, n) ==
    IF i < 0 THEN (IF i + n < 0 THEN 0 ELSE i + n) ELSE Min(i, n)

\* s[start:stop]
Slice(s, start, stop) ==
    SubSeq(s, SliceIndex(start, Len(s)) + 1, SliceIndex(stop, Len(s)))

paginated_messages_NoReverse(box, limit, offset, only_unread) ==
    LET messages == search(box, only_unread)
    IN Slice(messages, offset, offset + limit)

\* The uids list_emails hands to FETCH: most recent first, then offset/limit.
paginated_messages(box, limit, offset, only_unread) ==
    LET messages == Reverse(search(box, only_unread))
    IN Slice(messages, offset, offset + limit)

\* list_emails builds its result from fetch_data.items(): one entry per item of
\* the server's FETCH response, in the order the server sent them.  The set of
\* sequences it may return.
list_emails(box, limit, offset, only_unread) ==
    Orders(Range(paginated_messages(box, limit, offset, only_unread)))

get_unread_emails(box) == list_emails(box, UnreadLimit, 0, TRUE)

expunge_Keep(box) == box

\* EXPUNGE on the selected folder: every message flagged \Deleted goes.
expunge(box) == [m \in {x \in DOMAIN box : ~box[x].deleted} |-> box[m]]

\* STORE +FLAGS (\Deleted) on one uid; an unknown uid is ignored by the server.
add_deleted(box, m) ==
    [x \in DOMAIN box |-> IF x = m THEN [box[x] EXCEPT !.deleted = TRUE] ELSE box[x]]

copy_Skipped(box, dest, m) == dest

\* COPY of one uid of the source folder to the destination folder; a uid the
\* source folder does not hold is ignored by the server.
copy(box, dest, m) ==
    IF m \in DOMAIN box THEN [dest EXCEPT ![m] = @ + 1] ELSE dest

\* Where a move may raise: at none of its four commands, or at one of them.
MoveOutcomes == {"ok", "select", "copy", "flags", "expunge"}

\* A move that flags the message before it copies it.
move_email_FlagFirst(box, dest, m, failAt) ==
    LET sel == Cmd("SELECT", 0, "INBOX:rw", failAt # "select")
        cp  == Cmd("COPY", m, "Spam", failAt # "copy")
        st  == Cmd("STORE", m, "+Deleted", failAt # "flags")
        ex  == Cmd("EXPUNGE", 0, "INBOX", failAt # "expunge")
    IN CASE failAt = "select" ->
              [ok |-> FALSE, inbox |-> box, spam |-> dest, log |-> <<sel>>]
         [] failAt = "flags" ->
              [ok |-> FALSE, inbox |-> box, spam |-> dest, log |-> <<sel, st>>]
         [] failAt = "copy" ->
              [ok |-> FALSE, inbox |-> add_deleted(box, m), spam |-> dest,
               log |-> <<sel, st, cp>>]
         [] failAt = "expunge" ->
              [ok |-> FALSE, inbox |-> add_deleted(box, m),
               spam |-> copy(box, dest, m), log |-> <<sel, st, cp, ex>>]
         [] OTHER ->
              [ok |-> TRUE, inbox |-> expunge(add_deleted(box, m)),
               spam |-> copy(box, dest, m), log |-> <<sel, st, cp, ex>>]

\* move_email(email_id, "INBOX", "Spam"): select read-write, copy, flag, expunge;
\* the first command that raises ends it.  failAt names that command.
move_email(box, dest, m, failAt) ==
    LET sel == Cmd("SELECT", 0, "INBOX:rw", failAt # "select")
        cp  == Cmd("COPY", m, "Spam", failAt # "copy")
        st  == Cmd("STORE", m, "+Deleted", failAt # "flags")
        ex  == Cmd("EXPUNGE", 0, "INBOX", failAt # "expunge")
    IN CASE failAt = "select" ->
              [ok |-> FALSE, inbox |-> box, spam |-> dest, log |-> <<sel>>]
         [] failAt = "copy" ->
              [ok |-> FALSE, inbox |-> box, spam |-> dest, log |-> <<sel, cp>>]
         [] failAt = "flags" ->
              [ok |-> FALSE, inbox |-> box, spam |-> copy(box, dest, m),
               log |-> <<sel, cp, st>>]
         [] failAt = "expunge" ->
              [ok |-> FALSE, inbox |-> add_deleted(box, m),
               spam |-> copy(box, dest, m), log |-> <<sel, cp, st, ex>>]
         [] OTHER ->
              [ok |-> TRUE, inbox |-> expunge(add_deleted(box, m)),
               spam |-> copy(box, dest, m), log |-> <<sel, cp, st, ex>>]

(* ------------------------------------------------------------------ *)
(* Event bus (Redis pub/sub)                                          *)
(* ------------------------------------------------------------------ *)
\* channel_name of publish_email_event.
PublishChannel(user_id) == <<"email_events:user", user_id>>

\* StreamChannel that names one channel for every user.
StreamChannel_Shared(user_id) == <<"email_events:user", 1>>

\* channel_name of event_generator.
StreamChannel(user_id) == <<"email_events:user", user_id>>

Channels ==
    {PublishChannel(u) : u \in TaskUserIds} \cup {StreamChannel(u) : u \in UserIds}

\* redis_publish that drops an event for a connection whose buffer is not
\* empty.
redis_publish_NoBuffer(strs, channel, events) ==
    [s \in DOMAIN strs |->
        IF strs[s].subscribed /\ strs[s].channel = channel /\ strs[s].queue = <<>>
        THEN [strs[s] EXCEPT !.queue =
                 [i \in 1..Len(events) |-> [type |-> "message", data |-> events[i]]]]
        ELSE strs[s]]

\* redis_publish that hands an event to one subscriber of the channel only.
redis_publish_FirstOnly(strs, channel, events) ==
    [s \in DOMAIN strs |->
        IF /\ strs[s].subscribed /\ strs[s].channel = channel
           /\ \A t \in DOMAIN strs :
                  (strs[t].subscribed /\ strs[t].channel = channel) => s <= t
        THEN [strs[s] EXCEPT !.queue =
                 @ \o [i \in 1..Len(events) |-> [type |-> "message", data |-> events[i]]]]
        ELSE strs[s]]

\* PUBLISH of events on one channel: the server hands each to every connection
\* subscribed to that channel at that moment, and keeps nothing.
redis_publish(strs, channel, events) ==
    [s \in DOMAIN strs |->
        IF strs[s].subscribed /\ strs[s].channel = channel
        THEN [strs[s] EXCEPT !.queue =
                 @ \o [i \in 1..Len(events) |-> [type |-> "message", data |-> events[i]]]]
        ELSE strs[s]]

(* ------------------------------------------------------------------ *)
(* Monitoring task (app/workers/tasks.py)                             *)
(* ------------------------------------------------------------------ *)
\* The row "db.query(User).filter(User.id == user_id).first()" returns; known
\* is FALSE for None.
NoUser ==
    [known |-> FALSE, is_active |-> FALSE, is_monitoring |-> FALSE, last_sync_time |-> 0]

LoadUser(table, user_id) ==
    IF user_id \in DOMAIN table
    THEN [known |-> TRUE, is_active |-> table[user_id].is_active,
          is_monitoring |-> table[user_id].is_monitoring,
          last_sync_time |-> table[user_id].last_sync_time]
    ELSE NoUser

\* ShouldRun without the test of is_monitoring.
ShouldRun_IgnoreMonitoring(user) == user.known /\ user.is_active

\* The negation of the early-return test of the task.
ShouldRun(user) == user.known /\ user.is_active /\ user.is_monitoring

\* IMAPService.__enter__ -> connect(): IMAPClient(...) then login(...); either
\* may raise, and connect re-raises it as ConnectionError.  failAt names the
\* call that raises.  client is whether self.client got assigned, conn the
\* state of the server connection.
ConnectOutcomes == {"ok", "client", "login"}

connect(failAt) ==
    CASE failAt = "client" ->
           [ok |-> FALSE, client |-> FALSE, conn |-> "none",
            log |-> <<Cmd("CONNECT", 0, "", FALSE)>>]
      [] failAt = "login" ->
           [ok |-> FALSE, client |-> TRUE, conn |-> "open",
            log |-> <<Cmd("CONNECT", 0, "", TRUE), Cmd("LOGIN", 0, "", FALSE)>>]
      [] OTHER ->
           [ok |-> TRUE, client |-> TRUE, conn |-> "auth",
            log |-> <<Cmd("CONNECT", 0, "", TRUE), Cmd("LOGIN", 0, "", TRUE)>>]

\* disconnect() without the try/except around logout: a logout that raises
\* is propagated and the connection stays as it was.
disconnect_Unguarded(client, conn, okLogout) ==
    IF client
    THEN IF okLogout
         THEN [conn |-> "closed", raised |-> FALSE,
               log |-> <<Cmd("LOGOUT", 0, "", TRUE)>>]
         ELSE [conn |-> conn, raised |-> TRUE,
               log |-> <<Cmd("LOGOUT", 0, "", FALSE)>>]
    ELSE [conn |-> conn, raised |-> FALSE, log |-> <<>>]

\* IMAPService.__exit__ -> disconnect(): logout if self.client is set, and
\* whatever logout raises is swallowed.  okLogout tells whether logout
\* returned; a logout that raised has ended the connection as well (the
\* connection was lost, or it was given up after LOGOUT was sent).
disconnect(client, conn, okLogout) ==
    IF client
    THEN [conn |-> "closed", raised |-> FALSE,
          log |-> <<Cmd("LOGOUT", 0, "", okLogout)>>]
    ELSE [conn |-> conn, raised |-> FALSE, log |-> <<>>]

\* OuterExcept that publishes nothing.
OuterExcept_Silent(user_id, okOuter) ==
    [log |-> <<>>, sent |-> <<>>, raised |-> FALSE]

\* OuterExcept without the try/except-pass around its publish call: a
\* publish that raises leaves the task as an exception.
OuterExcept_Unguarded(user_id, okOuter) ==
    [log  |-> <<Pub(JobError(user_id), okOuter)>>,
     sent |-> IF okOuter THEN <<JobError(user_id)>> ELSE <<>>,
     raised |-> ~okOuter]

\* The handler "except Exception" of the task body: one publish call for an
\* error event without email_id, itself wrapped in try/except-pass, so the
\* handler never raises.
OuterExcept(user_id, okOuter) ==
    [log  |-> <<Pub(JobError(user_id), okOuter)>>,
     sent |-> IF okOuter THEN <<JobError(user_id)>> ELSE <<>>,
     raised |-> FALSE]

\* What the environment decides while one e-mail is processed: whether the
\* fetch of its detail, its classification and each publish call raise, and
\* where the move raises.
EmailOutcomes ==
    [fetch : BOOLEAN, classify : BOOLEAN, move : MoveOutcomes,
     pub : BOOLEAN, pubErr : BOOLEAN]

\* The number of failures an outcome asks of the environment.
Failures(o) ==
    (IF o.fetch THEN 0 ELSE 1) + (IF o.classify THEN 0 ELSE 1)
    + (IF o.move = "ok" THEN 0 ELSE 1) + (IF o.pub THEN 0 ELSE 1)
    + (IF o.pubErr THEN 0 ELSE 1)

\* The handler of the per-e-mail try: one publish call for the error event.
\* If that call raises, the exception leaves the loop (abort).
InnerExcept(user_id, m, pre, box, dest, o) ==
    [log |-> pre \o <<Pub(EmailError(user_id, m), o.pubErr)>>,
     inbox |-> box, spam |-> dest,
     sent |-> IF o.pubErr THEN <<EmailError(user_id, m)>> ELSE <<>>,
     abort |-> ~o.pubErr]

\* SpamBranch that publishes before it moves, whatever the move does.
SpamBranch_PublishFirst(user_id, m, confidence, mv, pubOk) ==
    LET ev == SpamDetected(user_id, m, confidence)
    IN [log |-> <<Pub(ev, pubOk)>> \o mv.log,
        sent |-> IF pubOk THEN <<ev>> ELSE <<>>]

\* The try/except around the move of a spam e-mail: the spam_detected event
\* is published after move_email returned; an exception of either is printed
\* and dropped.  mv is what move_email did.
SpamBranch(user_id, m, confidence, mv, pubOk) ==
    LET ev == SpamDetected(user_id, m, confidence)
    IN IF mv.ok
       THEN [log |-> mv.log \o <<Pub(ev, pubOk)>>,
             sent |-> IF pubOk THEN <<ev>> ELSE <<>>]
       ELSE [log |-> mv.log, sent |-> <<>>]

\* A fetch of the message that marks it read whatever the selection.
fetch_MarksSeen(box, m, readonly) ==
    [box EXCEPT ![m].seen = TRUE]

\* What fetch([email_id], ['RFC822', 'FLAGS']) does to the folder: RFC822 is
\* fetched without PEEK, so the server sets \Seen on the message unless the
\* folder is selected read-only, as get_email_detail selects it.
fetch(box, m, readonly) ==
    IF readonly THEN box ELSE [box EXCEPT ![m].seen = TRUE]

\* One iteration of "for email in unread_emails" on uid m.
ProcessEmail(user_id, m, box, dest, o) ==
    LET fetched == o.fetch /\ m \in DOMAIN box
        pre1 == <<Cmd("SELECT", 0, "INBOX:ro", TRUE), Cmd("FETCH", m, "RFC822", fetched)>>
    IN IF ~fetched THEN InnerExcept(user_id, m, pre1, box, dest, o)
       ELSE
       LET pre2 == pre1 \o <<Cmd("CLASSIFY", m, box[m].text, o.classify)>>
           read == fetch(box, m, TRUE)
           p == predict_with_confidence(box[m].text)
           is_spam == p[1]
           confidence == p[2]
       IN IF ~o.classify THEN InnerExcept(user_id, m, pre2, read, dest, o)
          ELSE IF is_spam
          THEN LET mv == move_email(read, dest, m, o.move)
                   b == SpamBranch(user_id, m, confidence, mv, o.pub)
               IN [log |-> pre2 \o b.log, inbox |-> mv.inbox, spam |-> mv.spam,
                   sent |-> b.sent, abort |-> FALSE]
          ELSE IF o.pub
               THEN [log |-> pre2 \o <<Pub(NewEmail(user_id, m), TRUE)>>,
                     inbox |-> read, spam |-> dest,
                     sent |-> <<NewEmail(user_id, m)>>, abort |-> FALSE]
               ELSE InnerExcept(user_id, m, pre2 \o <<Pub(NewEmail(user_id, m), FALSE)>>,
                                read, dest, o)

\* A task invocation before it starts.  user is the row it loaded, batch what
\* is left of unread_emails, listed the messages unread_emails held as they
\* were in INBOX then, client whether IMAPService.client is set, conn the
\* state of its server connection, committed whether it wrote last_sync_time,
\* db the state of its database session, raised whether it ended by an
\* exception that left the task.
IdleJob ==
    [pc |-> "idle", uid |-> 0, user |-> NoUser, batch |-> <<>>, listed |-> <<>>,
     client |-> FALSE, conn |-> "none", committed |-> FALSE,
     db |-> "none", raised |-> FALSE]

\* The task returns, or is left by the exception its handler raised; the
\* finally clause closes the database session either way.
Return(job, raised) ==
    [job EXCEPT !.pc = "done", !.db = "closed", !.raised = raised]

\* publish_email_event for the events of one step that Redis accepted.
Publish(user_id, sent) ==
    /\ published' = [published EXCEPT ![PublishChannel(user_id)] = @ \o sent]
    /\ streams' = redis_publish(streams, PublishChannel(user_id), sent)

\* A step whose log entries are entries is possible while the environment
\* has failures left; free is the number of its failures that are no choice
\* of the environment.
Fail(entries, free) ==
    /\ faults + Cardinality(Failed(entries)) - free <= MaxFaults
    /\ faults' = faults + Cardinality(Failed(entries)) - free

\* MonitorStart, but a job whose setup raised goes on to connect.
MonitorStart_ConnectAnyway(j, user_id) ==
    /\ jobs[j].pc \in {"idle", "queued"}
    /\ jobs[j].pc = "queued" => user_id = jobs[j].uid
    /\ LET user == LoadUser(users, user_id)
           opened == [jobs[j] EXCEPT !.uid = user_id, !.db = "open"]
           started == [opened EXCEPT !.user = user]
       IN \/ \E okOuter \in BOOLEAN :
               LET h == OuterExcept(user_id, okOuter)
                   entries == <<Cmd("QUERY", 0, "", FALSE)>> \o h.log
               IN /\ Fail(entries, 0)
                  /\ jobs' = [jobs EXCEPT ![j] = Return(opened, h.raised)]
                  /\ log' = [log EXCEPT ![j] = @ \o entries]
                  /\ Publish(user_id, h.sent)
          \/ IF ~ShouldRun(user)
             THEN /\ jobs' = [jobs EXCEPT ![j] = Return(started, FALSE)]
                  /\ UNCHANGED <<log, published, streams, faults>>
             ELSE \E setupOk, okOuter \in BOOLEAN :
                    IF setupOk
                    THEN /\ okOuter
                         /\ jobs' = [jobs EXCEPT ![j] = [started EXCEPT !.pc = "connect"]]
                         /\ UNCHANGED <<log, published, streams, faults>>
                    ELSE LET h == OuterExcept(user_id, okOuter)
                             entries == <<Cmd("SETUP", 0, "", FALSE)>> \o h.log
                         IN /\ Fail(entries, 0)
                            /\ jobs' = [jobs EXCEPT ![j] = [started EXCEPT !.pc = "connect"]]
                            /\ log' = [log EXCEPT ![j] = @ \o entries]
                            /\ Publish(user_id, h.sent)
    /\ UNCHANGED <<users, inbox, spam, clock, calls, session, trash>>

\* The task is invoked, with any argument or, for a job monitor_all_users
\* queued, by a worker with the argument it was queued with: it loads the
\* user, returns at once unless the user is active and monitoring, and
\* otherwise decrypts the password and gets the classifier; if the query or
\* either of these raises, the handler of the task body runs.
MonitorStart(j, user_id) ==
    /\ jobs[j].pc \in {"idle", "queued"}
    /\ jobs[j].pc = "queued" => user_id = jobs[j].uid
    /\ LET user == LoadUser(users, user_id)
           opened == [jobs[j] EXCEPT !.uid = user_id, !.db = "open"]
           started == [opened EXCEPT !.user = user]
       IN \/ \E okOuter \in BOOLEAN :
               LET h == OuterExcept(user_id, okOuter)
                   entries == <<Cmd("QUERY", 0, "", FALSE)>> \o h.log
               IN /\ Fail(entries, 0)
                  /\ jobs' = [jobs EXCEPT ![j] = Return(opened, h.raised)]
                  /\ log' = [log EXCEPT ![j] = @ \o entries]
                  /\ Publish(user_id, h.sent)
          \/ IF ~ShouldRun(user)
             THEN /\ jobs' = [jobs EXCEPT ![j] = Return(started, FALSE)]
                  /\ UNCHANGED <<log, published, streams, faults>>
             ELSE \E setupOk, okOuter \in BOOLEAN :
                    IF setupOk
                    THEN /\ okOuter
                         /\ jobs' = [jobs EXCEPT ![j] = [started EXCEPT !.pc = "connect"]]
                         /\ UNCHANGED <<log, published, streams, faults>>
                    ELSE LET h == OuterExcept(user_id, okOuter)
                             entries == <<Cmd("SETUP", 0, "", FALSE)>> \o h.log
                         IN /\ Fail(entries, 0)
                            /\ jobs' = [jobs EXCEPT ![j] = Return(started, h.raised)]
                            /\ log' = [log EXCEPT ![j] = @ \o entries]
                            /\ Publish(user_id, h.sent)
    /\ UNCHANGED <<users, inbox, spam, clock, calls, session, trash>>

\* MonitorConnect of a task that is run again after a failed connect.
MonitorConnect_Retry(j) ==
    /\ jobs[j].pc = "connect"
    /\ \E failAt \in ConnectOutcomes, okOuter \in BOOLEAN :
         LET c == connect(failAt)
             h == OuterExcept(jobs[j].uid, okOuter)
         IN IF c.ok
            THEN /\ okOuter
                 /\ jobs' = [jobs EXCEPT ![j] =
                        [@ EXCEPT !.pc = "list", !.client = c.client, !.conn = c.conn]]
                 /\ log' = [log EXCEPT ![j] = @ \o c.log]
                 /\ UNCHANGED <<published, streams, faults>>
            ELSE /\ Fail(c.log \o h.log, 0)
                 /\ jobs' = [jobs EXCEPT ![j] = [@ EXCEPT !.pc = "connect"]]
                 /\ log' = [log EXCEPT ![j] = @ \o c.log \o h.log]
                 /\ Publish(jobs[j].uid, h.sent)
    /\ UNCHANGED <<users, inbox, spam, clock, calls, session, trash>>

\* "with IMAPService(...) as imap": __enter__ connects.  __exit__ does not run
\* for an exception raised by __enter__, so a failed connect goes straight to
\* the handler of the task body.
MonitorConnect(j) ==
    /\ jobs[j].pc = "connect"
    /\ \E failAt \in ConnectOutcomes, okOuter \in BOOLEAN :
         LET c == connect(failAt)
             h == OuterExcept(jobs[j].uid, okOuter)
         IN IF c.ok
            THEN /\ okOuter
                 /\ jobs' = [jobs EXCEPT ![j] =
                        [@ EXCEPT !.pc = "list", !.client = c.client, !.conn = c.conn]]
                 /\ log' = [log EXCEPT ![j] = @ \o c.log]
                 /\ UNCHANGED <<published, streams, faults>>
            ELSE /\ Fail(c.log \o h.log, 0)
                 /\ jobs' = [jobs EXCEPT ![j] =
                        Return([@ EXCEPT !.client = c.client, !.conn = c.conn], h.raised)]
                 /\ log' = [log EXCEPT ![j] = @ \o c.log \o h.log]
                 /\ Publish(jobs[j].uid, h.sent)
    /\ UNCHANGED <<users, inbox, spam, clock, calls, session, trash>>

\* What imap.get_unread_emails(folder="INBOX") may do: return one of the
\* lists the server's response allows, or raise.
ListOutcomes(box) ==
    {[ok |-> TRUE, unread_emails |-> u, okOuter |-> TRUE] : u \in get_unread_emails(box)}
    \cup {[ok |-> FALSE, unread_emails |-> <<>>, okOuter |-> b] : b \in BOOLEAN}

\* MonitorList of a task that uses the session without the with-block: a
\* listing that raises goes to the handler and nothing logs out.
MonitorList_NoExit(j) ==
    /\ jobs[j].pc = "list"
    /\ \E r \in ListOutcomes(inbox[jobs[j].uid]) :
         LET user_id == jobs[j].uid
             select == Cmd("SELECT", 0, "INBOX:ro", TRUE)
         IN IF r.ok
            THEN /\ jobs' = [jobs EXCEPT ![j] =
                        [@ EXCEPT !.pc = "process", !.batch = r.unread_emails,
                                  !.listed = [m \in Range(r.unread_emails) |->
                                                 inbox[user_id][m]]]]
                 /\ log' = [log EXCEPT ![j] = @ \o
                        <<select, Cmd("SEARCH", 0, "UNSEEN", TRUE)>>
                        \o (IF r.unread_emails = <<>> THEN <<>>
                            ELSE <<Cmd("FETCH", 0, "ENVELOPE", TRUE)>>)]
                 /\ UNCHANGED <<published, streams, faults>>
            ELSE LET h == OuterExcept(user_id, r.okOuter)
                     entries == <<select, Cmd("SEARCH", 0, "UNSEEN", FALSE)>> \o h.log
                 IN /\ Fail(entries, 0)
                    /\ jobs' = [jobs EXCEPT ![j] = Return(@, h.raised)]
                    /\ log' = [log EXCEPT ![j] = @ \o entries]
                    /\ Publish(user_id, h.sent)
    /\ UNCHANGED <<users, inbox, spam, clock, calls, session, trash>>

\* imap.get_unread_emails(folder="INBOX"); if it raises, the with-block is
\* left through __exit__ and the handler of the task body runs.
MonitorList(j) ==
    /\ jobs[j].pc = "list"
    /\ \E r \in ListOutcomes(inbox[jobs[j].uid]) :
         LET user_id == jobs[j].uid
             select == Cmd("SELECT", 0, "INBOX:ro", TRUE)
         IN IF r.ok
            THEN /\ jobs' = [jobs EXCEPT ![j] =
                        [@ EXCEPT !.pc = "process", !.batch = r.unread_emails,
                                  !.listed = [m \in Range(r.unread_emails) |->
                                                 inbox[user_id][m]]]]
                 /\ log' = [log EXCEPT ![j] = @ \o
                        <<select, Cmd("SEARCH", 0, "UNSEEN", TRUE)>>
                        \o (IF r.unread_emails = <<>> THEN <<>>
                            ELSE <<Cmd("FETCH", 0, "ENVELOPE", TRUE)>>)]
                 /\ UNCHANGED <<published, streams, faults>>
            ELSE LET x == disconnect(jobs[j].client, jobs[j].conn, TRUE)
                     h == OuterExcept(user_id, r.okOuter)
                     entries == <<select, Cmd("SEARCH", 0, "UNSEEN", FALSE)>>
                                \o x.log \o h.log
                 IN /\ Fail(entries, 0)
                    /\ jobs' = [jobs EXCEPT ![j] =
                           Return([@ EXCEPT !.conn = x.conn], h.raised)]
                    /\ log' = [log EXCEPT ![j] = @ \o entries]
                    /\ Publish(user_id, h.sent)
    /\ UNCHANGED <<users, inbox, spam, clock, calls, session, trash>>

\* One iteration of the loop over unread_emails.  An exception that leaves
\* the iteration leaves the with-block through __exit__ and reaches the
\* handler of the task body; the lines after the with-block do not run.
MonitorProcess(j) ==
    /\ jobs[j].pc = "process"
    /\ jobs[j].batch # <<>>
    /\ LET user_id == jobs[j].uid
           m == Head(jobs[j].batch)
       IN \E r \in {ProcessEmail(user_id, m, inbox[user_id], spam[user_id], o) :
                        o \in {e \in EmailOutcomes : faults + Failures(e) <= MaxFaults}},
             okOuter \in BOOLEAN :
               LET x == disconnect(jobs[j].client, jobs[j].conn, TRUE)
                   h == OuterExcept(user_id, okOuter)
                   entries == IF r.abort THEN r.log \o x.log \o h.log ELSE r.log
               IN /\ r.abort \/ okOuter
                  /\ Fail(entries, IF m \in DOMAIN inbox[user_id] THEN 0 ELSE 1)
                  /\ jobs' = [jobs EXCEPT ![j] =
                         IF r.abort
                         THEN Return([@ EXCEPT !.conn = x.conn], h.raised)
                         ELSE [@ EXCEPT !.batch = Tail(@)]]
                  /\ log' = [log EXCEPT ![j] = @ \o entries]
                  /\ inbox' = [inbox EXCEPT ![user_id] = r.inbox]
                  /\ spam' = [spam EXCEPT ![user_id] = r.spam]
                  /\ Publish(user_id, IF r.abort THEN r.sent \o h.sent ELSE r.sent)
    /\ UNCHANGED <<users, clock, calls, session, trash>>

\* MonitorFinish, but the row is read again and nothing is written for a
\* user who is no longer monitoring.
MonitorFinish_Recheck(j) ==
    /\ jobs[j].pc = "process"
    /\ jobs[j].batch = <<>>
    /\ LET x == disconnect(jobs[j].client, jobs[j].conn, TRUE)
           still == users[jobs[j].uid].is_monitoring
       IN /\ jobs' = [jobs EXCEPT ![j] =
                 Return([@ EXCEPT !.conn = x.conn, !.committed = still], FALSE)]
          /\ log' = [log EXCEPT ![j] = @ \o x.log]
          /\ clock' = clock + 1
          /\ users' = IF still
                      THEN [users EXCEPT ![jobs[j].uid].last_sync_time = clock + 1]
                      ELSE users
    /\ UNCHANGED <<inbox, spam, streams, published, faults, calls, session, trash>>

\* The loop is over: __exit__ logs out, then last_sync_time is set to
\* datetime.utcnow() and committed.  A commit that raises writes nothing and
\* goes to the handler of the task body.
MonitorFinish(j) ==
    /\ jobs[j].pc = "process"
    /\ jobs[j].batch = <<>>
    /\ clock' = clock + 1
    /\ \E commitOk, okOuter \in BOOLEAN :
         LET x == disconnect(jobs[j].client, jobs[j].conn, TRUE)
             h == OuterExcept(jobs[j].uid, okOuter)
         IN IF commitOk
            THEN /\ okOuter
                 /\ jobs' = [jobs EXCEPT ![j] =
                        Return([@ EXCEPT !.conn = x.conn, !.committed = TRUE], FALSE)]
                 /\ log' = [log EXCEPT ![j] = @ \o x.log]
                 /\ users' = [users EXCEPT ![jobs[j].uid].last_sync_time = clock + 1]
                 /\ UNCHANGED <<published, streams, faults>>
            ELSE LET entries == x.log \o <<Cmd("COMMIT", 0, "", FALSE)>> \o h.log
                 IN /\ Fail(entries, 0)
                    /\ jobs' = [jobs EXCEPT ![j] =
                           Return([@ EXCEPT !.conn = x.conn], h.raised)]
                    /\ log' = [log EXCEPT ![j] = @ \o entries]
                    /\ users' = users
                    /\ Publish(jobs[j].uid, h.sent)
    /\ UNCHANGED <<inbox, spam, calls, session, trash>>

(* ------------------------------------------------------------------ *)
(* Task time limit (app/workers/__init__.py)                          *)
(* ------------------------------------------------------------------ *)
\* task_time_limit, in seconds.  No soft limit is configured.
task_time_limit == 30 * 60

\* A job that has not returned when task_time_limit has passed, as a job
\* whose mail session hangs does not: the pool ends the process that runs
\* it.  No except or finally clause of the task publishes anything at that
\* point; the connection is logged out or not (closed), depending on how the
\* process ends.
TimeLimitExceeded(j, closed) ==
    /\ jobs[j].pc \in {"list", "process"}
    /\ jobs' = [jobs EXCEPT ![j] =
                  [@ EXCEPT !.pc = "killed",
                            !.conn = IF closed THEN "closed" ELSE @]]
    /\ UNCHANGED <<users, inbox, spam, log, clock, streams, published, faults, calls, session, trash>>

(* ------------------------------------------------------------------ *)
(* Scheduler tick (app/workers/tasks.py)                              *)
(* ------------------------------------------------------------------ *)
\* active_users that takes every active user, monitoring or not.
active_users_ActiveOnly(table) == {u \in DOMAIN table : table[u].is_active}

\* The rows the query of monitor_all_users returns.
active_users(table) ==
    {u \in DOMAIN table : table[u].is_active /\ table[u].is_monitoring}

\* monitor_all_users, run by Celery Beat: one monitor_user_emails.delay(id)
\* per row of the query, in the order of the rows; delay() puts the job on
\* the queue and returns.  A behaviour has one tick.
monitor_all_users ==
    /\ calls = <<>>
    /\ LET ids == Ascending(active_users(users))
       IN /\ jobs' = jobs \o [i \in 1..Len(ids) |->
                                 [IdleJob EXCEPT !.pc = "queued", !.uid = ids[i]]]
          /\ log' = log \o [i \in 1..Len(ids) |-> <<>>]
    /\ calls' = <<[op |-> "monitor_all_users"]>>
    /\ UNCHANGED <<users, inbox, spam, clock, streams, published, faults, session, trash>>

(* ------------------------------------------------------------------ *)
(* Login and logout (app/api/auth.py)                                 *)
(* ------------------------------------------------------------------ *)
\* POST /auth/login with valid credentials: refused for an inactive user,
\* otherwise is_monitoring is set.
login(user_id) ==
    /\ users[user_id].is_active
    /\ ~users[user_id].is_monitoring
    /\ users' = [users EXCEPT ![user_id].is_monitoring = TRUE]
    /\ UNCHANGED <<inbox, spam, jobs, log, clock, streams, published, faults, calls, session, trash>>

\* POST /auth/logout: is_monitoring is cleared.
logout(user_id) ==
    /\ users[user_id].is_monitoring
    /\ users' = [users EXCEPT ![user_id].is_monitoring = FALSE]
    /\ UNCHANGED <<inbox, spam, jobs, log, clock, streams, published, faults, calls, session, trash>>

\* logout that also ends the notification streams of the user.
LogoutRequest_ClosesStreams(user_id) ==
    /\ calls = <<>>
    /\ users[user_id].is_monitoring
    /\ users' = [users EXCEPT ![user_id].is_monitoring = FALSE]
    /\ streams' = [s \in DOMAIN streams |->
                      IF streams[s].uid = user_id /\ streams[s].pc # "idle"
                      THEN [streams[s] EXCEPT !.pc = "closed", !.subscribed = FALSE,
                                              !.queue = <<>>]
                      ELSE streams[s]]
    /\ calls' = <<[op |-> "POST /auth/logout", user |-> user_id,
                   events |-> Len(published[PublishChannel(user_id)])]>>
    /\ UNCHANGED <<inbox, spam, jobs, log, clock, published, faults, session, trash>>

\* POST /auth/logout, recorded: is_monitoring is cleared and the change
\* committed; nothing else is touched.  events is the number of events the
\* user's channel had carried when the request was answered.
LogoutRequest(user_id) ==
    /\ calls = <<>>
    /\ users[user_id].is_monitoring
    /\ users' = [users EXCEPT ![user_id].is_monitoring = FALSE]
    /\ calls' = <<[op |-> "POST /auth/logout", user |-> user_id,
                   events |-> Len(published[PublishChannel(user_id)])]>>
    /\ UNCHANGED <<inbox, spam, jobs, log, clock, streams, published, faults, session, trash>>

(* ------------------------------------------------------------------ *)
(* Notification stream (app/api/monitoring.py)                        *)
(* ------------------------------------------------------------------ *)
\* An SSE request before it arrives.  redis is the state of its Redis
\* connection, subscribed whether the server holds a subscription for it,
\* queue what the connection has received and listen() has not yet yielded,
\* out what the generator yielded to the client, subAt the number of events
\* each channel had carried when the connection subscribed.
IdleStream ==
    [pc |-> "idle", uid |-> 0, redis |-> "none", subscribed |-> FALSE,
     channel |-> <<>>, queue |-> <<>>, out |-> <<>>, subAt |-> <<>>]

\* What Redis answers to SUBSCRIBE; listen() yields it before any message.
SubscribeReply(user_id) ==
    [type |-> "subscribe",
     data |-> [event_type |-> "subscribe", email_id |-> 0, confidence |-> 0,
               user |-> user_id]]

\* What the generator yields first.
ConnectedItem(user_id) ==
    [event |-> "connected",
     data |-> [event_type |-> "connected", email_id |-> 0, confidence |-> 0,
               user |-> user_id]]

\* MayStream that lets every user in.
MayStream_Anyone(user) == TRUE

\* The negation of the test that answers 403.
MayStream(user) == user.is_monitoring

\* GET /monitoring/sse by an authenticated user: 403 unless is_monitoring,
\* otherwise the response is created around the generator, which has not
\* started yet.
sse_endpoint(s, current_user) ==
    /\ streams[s].pc = "idle"
    /\ streams' = [streams EXCEPT ![s] =
           [@ EXCEPT !.uid = current_user,
                     !.pc = IF MayStream(users[current_user])
                            THEN "accepted" ELSE "rejected"]]
    /\ UNCHANGED <<users, inbox, spam, jobs, log, clock, published, faults, calls, session, trash>>

\* What may happen before the first yield: nothing raises; get_redis_client
\* raises; or the generator is left while it awaits pubsub.subscribe, by an
\* exception or by the cancellation of the request.
SubscribeOutcomes == {"ok", "connect", "subscribe"}

\* event_generator up to its first yield: a Redis connection, then SUBSCRIBE
\* to the user's channel.  These lines stand before the try statement, so an
\* exception raised in them runs neither handler nor the finally clause;
\* registered tells whether the server had taken the SUBSCRIBE by then.
StreamSubscribe(s) ==
    /\ streams[s].pc = "accepted"
    /\ \E outcome \in SubscribeOutcomes, registered \in BOOLEAN :
         LET channel_name == StreamChannel(streams[s].uid)
             sub == [streams[s] EXCEPT
                        !.redis = "open", !.subscribed = TRUE,
                        !.channel = channel_name,
                        !.queue = <<SubscribeReply(streams[s].uid)>>,
                        !.subAt = [c \in Channels |-> Len(published[c])]]
         IN CASE outcome = "ok" ->
                   /\ registered
                   /\ streams' = [streams EXCEPT ![s] = [sub EXCEPT !.pc = "subscribed"]]
                   /\ UNCHANGED faults
              [] outcome = "connect" ->
                   /\ registered
                   /\ faults < MaxFaults
                   /\ faults' = faults + 1
                   /\ streams' = [streams EXCEPT ![s] = [@ EXCEPT !.pc = "closed"]]
              [] OTHER ->
                   /\ faults < MaxFaults
                   /\ faults' = faults + 1
                   /\ streams' = [streams EXCEPT ![s] =
                          IF registered
                          THEN [sub EXCEPT !.pc = "closed"]
                          ELSE [@ EXCEPT !.pc = "closed", !.redis = "open"]]
    /\ UNCHANGED <<users, inbox, spam, jobs, log, clock, published, calls, session, trash>>

\* StreamConnected that yields nothing.
StreamConnected_Skip(s) ==
    /\ streams[s].pc = "subscribed"
    /\ streams' = [streams EXCEPT ![s] = [@ EXCEPT !.pc = "listening"]]
    /\ UNCHANGED <<users, inbox, spam, jobs, log, clock, published, faults, calls, session, trash>>

\* The client takes the first item: the connected event.
StreamConnected(s) ==
    /\ streams[s].pc = "subscribed"
    /\ streams' = [streams EXCEPT ![s] =
           [@ EXCEPT !.pc = "listening",
                     !.out = Append(@, ConnectedItem(streams[s].uid))]]
    /\ UNCHANGED <<users, inbox, spam, jobs, log, clock, published, faults, calls, session, trash>>

\* StreamListen that takes a message and yields nothing.
StreamListen_Drop(s) ==
    /\ streams[s].pc = "listening"
    /\ streams[s].queue # <<>>
    /\ streams' = [streams EXCEPT ![s] = [@ EXCEPT !.queue = Tail(@)]]
    /\ UNCHANGED <<users, inbox, spam, jobs, log, clock, published, faults, calls, session, trash>>

\* StreamListen, but an event of type error ends the stream.
StreamListen_CloseOnError(s) ==
    /\ streams[s].pc = "listening"
    /\ streams[s].queue # <<>>
    /\ LET message == Head(streams[s].queue)
       IN streams' = [streams EXCEPT ![s] =
              IF message.type = "message" /\ message.data.event_type = "error"
              THEN [@ EXCEPT !.pc = "closed", !.queue = <<>>, !.subscribed = FALSE,
                             !.redis = "closed",
                             !.out = Append(@, [event |-> "email_event",
                                                data |-> message.data])]
              ELSE [@ EXCEPT !.queue = Tail(@),
                             !.out = IF message.type = "message"
                                     THEN Append(@, [event |-> "email_event",
                                                     data |-> message.data])
                                     ELSE @]]
    /\ UNCHANGED <<users, inbox, spam, jobs, log, clock, published, faults, calls, session, trash>>

\* One turn of "async for message in pubsub.listen()": a message of type
\* "message" is yielded to the client, any other is skipped.
StreamListen(s) ==
    /\ streams[s].pc = "listening"
    /\ streams[s].queue # <<>>
    /\ LET message == Head(streams[s].queue)
       IN streams' = [streams EXCEPT ![s] =
              [@ EXCEPT !.queue = Tail(@),
                        !.out = IF message.type = "message"
                                THEN Append(@, [event |-> "email_event",
                                                data |-> message.data])
                                ELSE @]]
    /\ UNCHANGED <<users, inbox, spam, jobs, log, clock, published, faults, calls, session, trash>>

\* What is left of a request whose generator ran its finally clause:
\* unsubscribed, its Redis connection closed, and nothing more known of what
\* the client had received.
Released(stream) ==
    [IdleStream EXCEPT !.pc = "closed", !.uid = stream.uid,
                       !.redis = IF stream.redis = "open" THEN "closed" ELSE stream.redis]

\* The client goes away: before the generator started, nothing is to be
\* released; after, the generator is cancelled at its yield or in listen()
\* and unsubscribes and closes its Redis connection.
StreamDisconnect(s) ==
    /\ streams[s].pc \in {"accepted", "subscribed", "listening"}
    /\ streams' = [streams EXCEPT ![s] = Released(streams[s])]
    /\ UNCHANGED <<users, inbox, spam, jobs, log, clock, published, faults, calls, session, trash>>

\* listen() raises: the generator yields an error item, then its finally
\* clause unsubscribes and closes the Redis connection.
StreamError(s) ==
    /\ streams[s].pc = "listening"
    /\ faults < MaxFaults
    /\ faults' = faults + 1
    /\ streams' = [streams EXCEPT ![s] = Released(streams[s])]
    /\ UNCHANGED <<users, inbox, spam, jobs, log, clock, published, calls, session, trash>>

(* ------------------------------------------------------------------ *)
(* Calls on a mail session (app/services/imap_service.py)             *)
(* ------------------------------------------------------------------ *)
\* One move_email(email_id, "INBOX", "Spam") on the folders of user_id, left at
\* the command failAt names.  present tells whether INBOX held email_id when
\* the call began, ok whether it returned rather than raised, held and flagged
\* which uids INBOX held and which of them
\* carried \Deleted then.  At most a call and its repetition are recorded.
MoveEmailCall(user_id, email_id, failAt) ==
    /\ Len(calls) < 2
    /\ LET r == move_email(inbox[user_id], spam[user_id], email_id, failAt)
       IN /\ inbox' = [inbox EXCEPT ![user_id] = r.inbox]
          /\ spam' = [spam EXCEPT ![user_id] = r.spam]
    /\ calls' = Append(calls, [op |-> "move_email", user |-> user_id,
                               id |-> email_id, failAt |-> failAt,
                               ok |-> move_email(inbox[user_id], spam[user_id],
                                                 email_id, failAt).ok,
                               present |-> email_id \in DOMAIN inbox[user_id],
                               held |-> DOMAIN inbox[user_id],
                               flagged |-> {m \in DOMAIN inbox[user_id] :
                                               inbox[user_id][m].deleted}])
    /\ UNCHANGED <<users, jobs, log, clock, streams, published, faults, session, trash>>

\* One list_emails("INBOX", limit, offset, only_unread) on the folder of
\* user_id; result is the sequence of the "id" keys of the list it returns.
\* The folder is selected read-only and stays as it is.  At most two calls
\* are recorded.
ListEmailsCall(user_id, limit, offset, only_unread) ==
    /\ Len(calls) < 2
    /\ \E emails \in list_emails(inbox[user_id], limit, offset, only_unread) :
           calls' = Append(calls, [op |-> "list_emails", user |-> user_id,
                                   limit |-> limit, offset |-> offset,
                                   only_unread |-> only_unread, result |-> emails])
    /\ UNCHANGED <<users, inbox, spam, jobs, log, clock, streams, published, faults, session, trash>>

\* The greatest limit the listing endpoint accepts (Query(le=100)).
LimitCap == 100

\* The limit and offset query parameters a client may send.
QueryLimits == ((0 - MaxMsgs)..(MaxMsgs + 1)) \cup {LimitCap, LimitCap + 1}

QueryOffsets == (0 - 1)..MaxMsgs

\* GET /emails: the query is validated (limit <= 100, offset >= 0; a rejected
\* query is answered 422 and nothing is called), a session is opened and
\* list_emails called with the parameters as sent.  connected tells whether
\* the session opened; any exception is answered 500.
ListEmailsRequest(user_id, limit, offset, only_unread, connected) ==
    /\ calls = <<>>
    /\ \E emails \in list_emails(inbox[user_id], limit, offset, only_unread) :
           LET status == IF ~(limit <= LimitCap /\ offset >= 0) THEN 422
                         ELSE IF ~connected THEN 500 ELSE 200
           IN calls' = <<[op |-> "GET /emails", user |-> user_id, limit |-> limit,
                          offset |-> offset, only_unread |-> only_unread,
                          status |-> status,
                          result |-> IF status = 200 THEN emails ELSE <<>>]>>
    /\ UNCHANGED <<users, inbox, spam, jobs, log, clock, streams, published, faults, session, trash>>

\* The listing call of the monitoring task: get_unread_emails(folder="INBOX").
GetUnreadEmailsCall(user_id) ==
    /\ calls = <<>>
    /\ \E emails \in get_unread_emails(inbox[user_id]) :
           calls' = <<[op |-> "get_unread_emails", user |-> user_id,
                       limit |-> UnreadLimit, offset |-> 0, only_unread |-> TRUE,
                       status |-> 200, result |-> emails]>>
    /\ UNCHANGED <<users, inbox, spam, jobs, log, clock, streams, published, faults, session, trash>>

(* ------------------------------------------------------------------ *)
(* A mail session object and its operations                           *)
(* (app/services/imap_service.py)                                     *)
(* ------------------------------------------------------------------ *)
\* The folders the reading operations are called on.  The model tracks the
\* messages of INBOX, the copies in Spam, and the messages of Trash.
Folders == {"INBOX", "Spam"}

\* The uid the server gives the next message added to box.
NextUid(box) ==
    IF DOMAIN box = {} THEN 1
    ELSE 1 + CHOOSE m \in DOMAIN box : \A x \in DOMAIN box : x <= m

\* COPY into Trash: the copy is a new message of the folder, under a new uid,
\* with the flags of the message it was copied from; of names the message of
\* INBOX it is a copy of.
copy_to_trash(box, msg) == box @@ (NextUid(box) :> msg)

\* One command an operation sends: folder is the folder argument of the
\* operation, m the uid (0 if none), arg the command's own argument.
Command(name, folder, m, arg) == [name |-> name, folder |-> folder, m |-> m, arg |-> arg]

MutatingCommands == {"STORE", "COPY", "EXPUNGE"}

\* STORE of one flag change on one uid of box.
store(box, m, arg) ==
    [x \in DOMAIN box |->
        IF x # m THEN box[x]
        ELSE CASE arg = "+Seen" -> [box[x] EXCEPT !.seen = TRUE]
               [] arg = "-Seen" -> [box[x] EXCEPT !.seen = FALSE]
               [] OTHER -> [box[x] EXCEPT !.deleted = TRUE]]

\* What the server does with a command it accepts.  st holds the session and
\* the tracked folders; flag changes, copies and expunges act on the
\* folder that is selected, as the server sees it.
Apply(st, c) ==
    LET sel == st.session.selected
    IN CASE c.name = "SELECT" ->
              [st EXCEPT !.session.selected =
                            [folder |-> c.folder, readonly |-> c.arg = "ro"]]
         [] c.name = "STORE" /\ sel.folder = "INBOX" /\ ~sel.readonly ->
              [st EXCEPT !.inbox = store(st.inbox, c.m, c.arg)]
         [] c.name = "COPY" /\ sel.folder = "INBOX" /\ c.arg = "Spam" ->
              [st EXCEPT !.spam = copy(st.inbox, st.spam, c.m)]
         [] c.name = "EXPUNGE" /\ sel.folder = "INBOX" /\ ~sel.readonly ->
              [st EXCEPT !.inbox = expunge(st.inbox)]
         [] c.name = "COPY" /\ sel.folder = "INBOX" /\ c.arg = "Trash"
                /\ c.m \in DOMAIN st.inbox ->
              [st EXCEPT !.trash = copy_to_trash(@,
                     [of |-> c.m, seen |-> st.inbox[c.m].seen,
                      deleted |-> st.inbox[c.m].deleted])]
         [] c.name = "COPY" /\ sel.folder = "Trash" /\ c.arg = "Trash"
                /\ c.m \in DOMAIN st.trash ->
              [st EXCEPT !.trash = copy_to_trash(@, st.trash[c.m])]
         [] c.name = "STORE" /\ sel.folder = "Trash" /\ ~sel.readonly ->
              [st EXCEPT !.trash = store(st.trash, c.m, c.arg)]
         [] c.name = "EXPUNGE" /\ sel.folder = "Trash" /\ ~sel.readonly ->
              [st EXCEPT !.trash = expunge(st.trash)]
         [] OTHER -> st

\* The session sends c; ok tells whether the server accepted it.  A SELECT
\* that fails leaves no folder selected.  The command is recorded with the
\* selection it was sent under.
Issue(st, c, ok) ==
    LET sent == [name |-> c.name, folder |-> c.folder, m |-> c.m, arg |-> c.arg,
                 sel |-> st.session.selected, ok |-> ok]
        after == IF ok THEN Apply(st, c)
                 ELSE IF c.name = "SELECT"
                      THEN [st EXCEPT !.session.selected = NoSelection]
                      ELSE st
    IN [after EXCEPT !.session.issued = Append(@, sent)]

\* The commands of cmds from the i-th on, sent one after the other; the
\* failAt-th raises and ends the operation (0: none raises).
RECURSIVE Run(_, _, _, _)
Run(st, cmds, i, failAt) ==
    IF i > Len(cmds) THEN [st |-> st, ok |-> TRUE]
    ELSE IF i = failAt THEN [st |-> Issue(st, cmds[i], FALSE), ok |-> FALSE]
    ELSE Run(Issue(st, cmds[i], TRUE), cmds, i + 1, failAt)

\* The client calls of each operation, in order.
ListFoldersCommands == <<Command("LIST", "", 0, "")>>

\* nonempty: the page is not empty, so its messages are fetched.
ListEmailsCommands(folder, nonempty) ==
    <<Command("SELECT", folder, 0, "ro"), Command("SEARCH", folder, 0, "ALL")>>
        \o (IF nonempty THEN <<Command("FETCH", folder, 0, "")>> ELSE <<>>)

GetEmailDetailCommands(folder, m) ==
    <<Command("SELECT", folder, 0, "ro"), Command("FETCH", folder, m, "")>>

MarkAsReadCommands_NoSelect(folder, m) == <<Command("STORE", folder, m, "+Seen")>>

MarkAsReadCommands(folder, m) ==
    <<Command("SELECT", folder, 0, "rw"), Command("STORE", folder, m, "+Seen")>>

MarkAsUnreadCommands(folder, m) ==
    <<Command("SELECT", folder, 0, "rw"), Command("STORE", folder, m, "-Seen")>>

MoveEmailCommands(folder, m, dest) ==
    <<Command("SELECT", folder, 0, "rw"), Command("COPY", folder, m, dest),
      Command("STORE", folder, m, "+Deleted"), Command("EXPUNGE", folder, 0, "")>>

DeleteFallbackCommands_NoExpunge(folder, m) ==
    <<Command("SELECT", folder, 0, "rw"), Command("STORE", folder, m, "+Deleted")>>

\* The except branch of delete_email.
DeleteFallbackCommands(folder, m) ==
    <<Command("SELECT", folder, 0, "rw"), Command("STORE", folder, m, "+Deleted"),
      Command("EXPUNGE", folder, 0, "")>>

SearchEmailsCommands(folder) ==
    <<Command("SELECT", folder, 0, "ro"), Command("SEARCH", folder, 0, "OR")>>

\* The session and the folders of its user as an operation finds them.
Here == [session |-> session, inbox |-> inbox[1], spam |-> spam[1], trash |-> trash]

\* Whether a command can succeed: the connection is logged in.
Usable == session.conn = "auth"

\* The uids folder holds.
Holds(st, folder) ==
    CASE folder = "INBOX" -> DOMAIN st.inbox
      [] folder = "Trash" -> DOMAIN st.trash
      [] OTHER -> {m \in Msgs : st.spam[m] > 0}

\* An operation that sends cmds: "if not self.client: raise RuntimeError"
\* first; on a connection that is not logged in, or is closed, the first
\* command call raises.
Operation(cmds, failAt) ==
    IF ~session.client THEN [st |-> Here, error |-> "precondition"]
    ELSE LET r == Run(Here, cmds, 1, IF Usable THEN failAt ELSE 1)
         IN [st |-> r.st, error |-> IF r.ok THEN "none" ELSE "command"]

\* delete_email: move_email(email_id, folder, "Trash"), and whatever it raises
\* is caught and answered by the fallback commands.
delete_email(folder, m, failAt, fallbackFailAt) ==
    IF ~session.client THEN [st |-> Here, error |-> "precondition", fallback |-> FALSE]
    ELSE LET unusable == ~Usable
             r == Run(Here, MoveEmailCommands(folder, m, "Trash"), 1,
                      IF unusable THEN 1 ELSE failAt)
         IN IF r.ok THEN [st |-> r.st, error |-> "none", fallback |-> FALSE]
            ELSE LET f == Run(r.st, DeleteFallbackCommands(folder, m), 1,
                              IF unusable THEN 1 ELSE fallbackFailAt)
                 IN [st |-> f.st, error |-> IF f.ok THEN "none" ELSE "command",
                     fallback |-> TRUE]

\* How many of the commands an operation sends raise.
Raised(r) ==
    Cardinality({k \in DOMAIN r.st.session.issued :
                    k > Len(session.issued) /\ ~r.st.session.issued[k].ok})

\* The frame of an operation on the session: its result r becomes the state,
\* and the call is recorded with the state the session was in when it began.
\* Commands that raise on a logged-in connection count as failures.  At most
\* two operations are recorded: one and the one that ran before it.
Invoke(op, folder, m, r, fallback) ==
    /\ Len(calls) < 2
    /\ LET cost == IF Usable THEN Raised(r) ELSE 0
       IN /\ faults + cost <= MaxFaults
          /\ faults' = faults + cost
    /\ session' = r.st.session
    /\ inbox' = [inbox EXCEPT ![1] = r.st.inbox]
    /\ spam' = [spam EXCEPT ![1] = r.st.spam]
    /\ trash' = r.st.trash
    /\ calls' = Append(calls, [op |-> op, folder |-> folder, id |-> m,
                               error |-> r.error, fallback |-> fallback,
                               client |-> session.client, conn |-> session.conn,
                               present |-> m \in Holds(Here, folder),
                               sent |-> Len(r.st.session.issued) - Len(session.issued)])
    /\ UNCHANGED <<users, jobs, log, clock, streams, published>>

SessionConnect(failAt) ==
    /\ ~session.client /\ session.conn = "none"
    /\ Failed(connect(failAt).log) # {} => faults < MaxFaults
    /\ faults' = faults + Cardinality(Failed(connect(failAt).log))
    /\ session' = [session EXCEPT !.client = connect(failAt).client,
                                  !.conn = connect(failAt).conn]
    /\ UNCHANGED <<users, inbox, spam, jobs, log, clock, streams, published, calls, trash>>

\* One disconnect() on the session in any state, its logout returning or
\* raising; the call is recorded like an operation.
SessionDisconnect(okLogout) ==
    LET x == disconnect(session.client, session.conn, okLogout)
    IN /\ Len(calls) < 2
       /\ session' = [session EXCEPT !.conn = x.conn, !.selected = NoSelection]
       /\ calls' = Append(calls, [op |-> "disconnect", folder |-> "", id |-> 0,
                                  error |-> IF x.raised THEN "logout" ELSE "none",
                                  fallback |-> FALSE,
                                  client |-> session.client, conn |-> session.conn,
                                  present |-> FALSE, sent |-> Len(x.log)])
       /\ UNCHANGED <<users, inbox, spam, jobs, log, clock, streams, published, faults, trash>>

SessionListFolders(failAt) ==
    /\ failAt \in 0..Len(ListFoldersCommands)
    /\ Invoke("list_folders", "", 0, Operation(ListFoldersCommands, failAt), FALSE)

SessionListEmails(folder, failAt) ==
    LET cmds == ListEmailsCommands(folder, Holds(Here, folder) # {})
    IN /\ failAt \in 0..Len(cmds)
       /\ Invoke("list_emails", folder, 0, Operation(cmds, failAt), FALSE)

\* get_email_detail raises ValueError after its fetch if the uid is not there.
SessionGetEmailDetail(folder, m, failAt) ==
    LET cmds == GetEmailDetailCommands(folder, m)
        r == Operation(cmds, failAt)
        found == [r EXCEPT !.error = IF @ = "none" /\ m \notin Holds(Here, folder)
                                     THEN "not found" ELSE @]
    IN /\ failAt \in 0..Len(cmds)
       /\ Invoke("get_email_detail", folder, m, found, FALSE)

SessionMarkAsRead(folder, m, failAt) ==
    LET cmds == MarkAsReadCommands(folder, m)
    IN /\ failAt \in 0..Len(cmds)
       /\ Invoke("mark_as_read", folder, m, Operation(cmds, failAt), FALSE)

SessionMarkAsUnread(folder, m, failAt) ==
    LET cmds == MarkAsUnreadCommands(folder, m)
    IN /\ failAt \in 0..Len(cmds)
       /\ Invoke("mark_as_unread", folder, m, Operation(cmds, failAt), FALSE)

SessionMoveEmail(folder, m, dest, failAt) ==
    LET cmds == MoveEmailCommands(folder, m, dest)
    IN /\ failAt \in 0..Len(cmds)
       /\ Invoke("move_email", folder, m, Operation(cmds, failAt), FALSE)

SessionDeleteEmail(folder, m, failAt, fallbackFailAt) ==
    LET r == delete_email(folder, m, failAt, fallbackFailAt)
    IN /\ failAt \in 0..Len(MoveEmailCommands(folder, m, "Trash"))
       /\ fallbackFailAt \in 0..Len(DeleteFallbackCommands(folder, m))
       /\ failAt = 0 => fallbackFailAt = 0
       /\ Invoke("delete_email", folder, m, [st |-> r.st, error |-> r.error], r.fallback)

SessionSearchEmails(folder, failAt) ==
    LET cmds == SearchEmailsCommands(folder)
    IN /\ failAt \in 0..Len(cmds)
       /\ Invoke("search_emails", folder, 0, Operation(cmds, failAt), FALSE)

(* ------------------------------------------------------------------ *)
(* Body extraction of get_email_detail                                *)
(* (app/services/imap_service.py)                                     *)
(* ------------------------------------------------------------------ *)

\* The most parts a message has in walk order.
MaxParts == 3

ContentTypes == {"text/plain", "text/html", "multipart/mixed"}

\* Decoded payloads of a part; "" is a part without content.
Payloads == {"", "a", "b"}

\* A part as the walk sees it: its content type, whether its
\* Content-Disposition header contains "attachment", whether it has a
\* filename, and its decoded payload.  The filename is read only of an
\* attachment, whose payload gives nothing but its size.
Parts ==
    [content_type : ContentTypes, attachment : {FALSE}, filename : {FALSE},
     payload : Payloads]
    \cup [content_type : ContentTypes, attachment : {TRUE}, filename : BOOLEAN,
          payload : {"a"}]

\* The parts of a message in walk order.
Walks == UNION {[1..n -> Parts] : n \in 1..MaxParts}

NoBody == [body_plain |-> "", body_html |-> "", attachments |-> <<>>]

\* A walk that assigns the body on every part of the type, not only while the
\* body is still empty.
walk_step_LastWins(acc, part, i) ==
    IF part.attachment
    THEN IF part.filename
         THEN [acc EXCEPT !.attachments = Append(@, i)]
         ELSE acc
    ELSE IF part.content_type = "text/plain"
         THEN [acc EXCEPT !.body_plain = part.payload]
         ELSE IF part.content_type = "text/html"
              THEN [acc EXCEPT !.body_html = part.payload]
              ELSE acc

\* One iteration of "for part in msg.walk()": an attachment part is recorded
\* when it has a filename; otherwise a text/plain part sets body_plain while
\* body_plain is falsy (empty), a text/html part sets body_html while
\* body_html is falsy.
walk_step(acc, part, i) ==
    IF part.attachment
    THEN IF part.filename
         THEN [acc EXCEPT !.attachments = Append(@, i)]
         ELSE acc
    ELSE IF part.content_type = "text/plain" /\ acc.body_plain = ""
         THEN [acc EXCEPT !.body_plain = part.payload]
         ELSE IF part.content_type = "text/html" /\ acc.body_html = ""
              THEN [acc EXCEPT !.body_html = part.payload]
              ELSE acc

RECURSIVE walk(_, _, _)
walk(parts, i, acc) ==
    IF i > Len(parts) THEN acc
    ELSE walk(parts, i + 1, walk_step(acc, parts[i], i))

\* The single-part branch: a non-empty payload goes to body_html when the
\* type is text/html and to body_plain otherwise.
single_part(part) ==
    IF part.payload = "" THEN NoBody
    ELSE IF part.content_type = "text/html"
         THEN [NoBody EXCEPT !.body_html = part.payload]
         ELSE [NoBody EXCEPT !.body_plain = part.payload]

\* body_plain, body_html and attachments (as part positions) of a message.
extract_body(is_multipart, parts) ==
    IF is_multipart THEN walk(parts, 1, NoBody) ELSE single_part(parts[1])

\* One get_email_detail on a message of any parts (a single-part message has
\* one); the call and the bodies it returns are recorded.
GetEmailDetailCall ==
    /\ calls = <<>>
    /\ \E is_multipart \in BOOLEAN, parts \in Walks :
           /\ is_multipart \/ Len(parts) = 1
           /\ calls' = <<[op |-> "get_email_detail", is_multipart |-> is_multipart,
                          parts |-> parts,
                          detail |-> extract_body(is_multipart, parts)]>>
    /\ UNCHANGED <<users, inbox, spam, jobs, log, clock, streams, published, faults, session, trash>>

(* ------------------------------------------------------------------ *)
(* Specification                                                      *)
(* ------------------------------------------------------------------ *)
MessageStates == [text : Texts, seen : BOOLEAN, deleted : BOOLEAN]

Mailboxes == UNION {[D -> MessageStates] : D \in SUBSET Msgs}

UserRows == [is_active : BOOLEAN, is_monitoring : BOOLEAN, last_sync_time : {0}]

Init ==
    /\ \E row \in UserRows : users = [u \in UserIds |-> row]
    /\ \E box \in Mailboxes : inbox = [u \in UserIds |-> box]
    /\ spam = [u \in UserIds |-> [m \in Msgs |-> 0]]
    /\ jobs = [j \in JobIds |-> IdleJob]
    /\ log = [j \in JobIds |-> <<>>]
    /\ clock = 0
    /\ streams = [s \in {} |-> IdleStream]
    /\ published = [c \in Channels |-> <<>>]
    /\ faults = 0
    /\ calls = <<>>
    /\ session = NoSession
    /\ trash = EmptyFolder

Next ==
    \/ \E j \in DOMAIN jobs, user_id \in TaskUserIds : MonitorStart(j, user_id)
    \/ \E j \in DOMAIN jobs : MonitorConnect(j)
    \/ \E j \in DOMAIN jobs : MonitorList(j)
    \/ \E j \in DOMAIN jobs : MonitorProcess(j)
    \/ \E j \in DOMAIN jobs : MonitorFinish(j)

\* One invocation of the task on any mailbox and any user row, with up to
\* MaxFaults failing commands and calls.
Spec == Init /\ [][Next]_vars

\* A mailbox of two unread, unflagged messages: one legitimate, one spam.
BusMailbox ==
    <<[text |-> "ham", seen |-> FALSE, deleted |-> FALSE],
      [text |-> "spam", seen |-> FALSE, deleted |-> FALSE]>>

BusInit ==
    /\ \E row \in UserRows : users = [u \in UserIds |-> row]
    /\ inbox = [u \in UserIds |-> BusMailbox]
    /\ spam = [u \in UserIds |-> [m \in Msgs |-> 0]]
    /\ jobs = [j \in JobIds |-> IdleJob]
    /\ log = [j \in JobIds |-> <<>>]
    /\ clock = 0
    /\ streams = [s \in StreamIds |-> IdleStream]
    /\ published = [c \in Channels |-> <<>>]
    /\ faults = MaxFaults - 1
    /\ calls = <<>>
    /\ session = NoSession
    /\ trash = EmptyFolder

BusNext ==
    \/ Next
    \/ \E s \in DOMAIN streams, u \in UserIds : sse_endpoint(s, u)
    \/ \E s \in DOMAIN streams : StreamSubscribe(s)
    \/ \E s \in DOMAIN streams : StreamConnected(s)
    \/ \E s \in DOMAIN streams : StreamListen(s)
    \/ \E s \in DOMAIN streams : StreamDisconnect(s)
    \/ \E s \in DOMAIN streams : StreamError(s)

\* One invocation of the task publishing while SSE requests come and go; at
\* most one command or call fails.
BusSpec == BusInit /\ [][BusNext]_vars

\* Any users table, no job yet.
TickInit ==
    /\ users \in [UserIds -> UserRows]
    /\ inbox = [u \in UserIds |-> BusMailbox]
    /\ spam = [u \in UserIds |-> [m \in Msgs |-> 0]]
    /\ jobs = <<>>
    /\ log = <<>>
    /\ clock = 0
    /\ streams = [s \in {} |-> IdleStream]
    /\ published = [c \in Channels |-> <<>>]
    /\ faults = MaxFaults
    /\ calls = <<>>
    /\ session = NoSession
    /\ trash = EmptyFolder

TickNext ==
    \/ monitor_all_users
    \/ \E u \in UserIds : login(u)
    \/ \E u \in UserIds : logout(u)
    \/ Next

\* One tick of the scheduler and the jobs it queued, while users log in and
\* out; no command or call fails.
TickSpec == TickInit /\ [][TickNext]_vars

\* Mailboxes in which no message carries the \Deleted flag.
UnflaggedMailboxes ==
    {box \in Mailboxes : \A m \in DOMAIN box : ~box[m].deleted}

\* Two jobs queued for the same user, as two ticks leave them when the first
\* job has not run before the second tick.
OverlapInit ==
    /\ users = [u \in UserIds |->
                   [is_active |-> TRUE, is_monitoring |-> TRUE, last_sync_time |-> 0]]
    /\ \E box \in UnflaggedMailboxes : inbox = [u \in UserIds |-> box]
    /\ spam = [u \in UserIds |-> [m \in Msgs |-> 0]]
    /\ jobs = [j \in {1, 2} |-> [IdleJob EXCEPT !.pc = "queued", !.uid = 1]]
    /\ log = [j \in {1, 2} |-> <<>>]
    /\ clock = 0
    /\ streams = [s \in {} |-> IdleStream]
    /\ published = [c \in Channels |-> <<>>]
    /\ faults = MaxFaults
    /\ calls = <<>>
    /\ session = NoSession
    /\ trash = EmptyFolder

\* Two jobs of one user running side by side; no command or call fails by
\* itself.
OverlapSpec == OverlapInit /\ [][Next]_vars

\* Any INBOX, with any flags on its messages, and an empty Spam folder; the
\* content of a message plays no part in a move.
MoveInit ==
    /\ users = [u \in UserIds |->
                   [is_active |-> TRUE, is_monitoring |-> TRUE, last_sync_time |-> 0]]
    /\ \E box \in {b \in Mailboxes : \A m \in DOMAIN b : b[m].text = "ham"} :
           inbox = [u \in UserIds |-> box]
    /\ spam = [u \in UserIds |-> [m \in Msgs |-> 0]]
    /\ jobs = <<>>
    /\ log = <<>>
    /\ clock = 0
    /\ streams = [s \in {} |-> IdleStream]
    /\ published = [c \in Channels |-> <<>>]
    /\ faults = 0
    /\ calls = <<>>
    /\ session = NoSession
    /\ trash = EmptyFolder

MoveNext ==
    \E user_id \in UserIds, email_id \in Msgs, failAt \in MoveOutcomes :
        MoveEmailCall(user_id, email_id, failAt)

\* Up to two moves, each on any message and left at any of its commands.
MoveSpec == MoveInit /\ [][MoveNext]_vars

\* The uids of a folder that is listed page by page: enough of them for two
\* full pages of the largest page size.
ListMsgs == 1..(MaxMsgs + 2)

\* The limit and offset arguments of a list_emails call.
Limits == 1..MaxMsgs

Offsets == 0..MaxMsgs

\* Any INBOX over ListMsgs, each message read or unread.
ListMailboxes ==
    UNION {[D -> [text : {"ham"}, seen : BOOLEAN, deleted : {FALSE}]] :
              D \in SUBSET ListMsgs}

ListInit ==
    /\ users = [u \in UserIds |->
                   [is_active |-> TRUE, is_monitoring |-> TRUE, last_sync_time |-> 0]]
    /\ \E box \in ListMailboxes : inbox = [u \in UserIds |-> box]
    /\ spam = [u \in UserIds |-> [m \in Msgs |-> 0]]
    /\ jobs = <<>>
    /\ log = <<>>
    /\ clock = 0
    /\ streams = [s \in {} |-> IdleStream]
    /\ published = [c \in Channels |-> <<>>]
    /\ faults = 0
    /\ calls = <<>>
    /\ session = NoSession
    /\ trash = EmptyFolder

ListNext ==
    \E limit \in Limits, offset \in Offsets, only_unread \in BOOLEAN :
        ListEmailsCall(1, limit, offset, only_unread)

\* Up to two list_emails calls, with any arguments, on the unchanged INBOX
\* of one user.
ListSpec == ListInit /\ [][ListNext]_vars

PageNext ==
    \/ \E limit \in QueryLimits, offset \in QueryOffsets,
          only_unread \in BOOLEAN, connected \in BOOLEAN :
           ListEmailsRequest(1, limit, offset, only_unread, connected)
    \/ GetUnreadEmailsCall(1)

\* One listing, by the endpoint with any query or by the monitoring task, of
\* any INBOX.
PageSpec == ListInit /\ [][PageNext]_vars

\* Where a command of an operation may raise: at none (0) or at the n-th.
FailPoints == 0..4

\* A fresh session object on the two-message INBOX, and one failure to spend.
SessionInit ==
    /\ users = [u \in UserIds |->
                   [is_active |-> TRUE, is_monitoring |-> TRUE, last_sync_time |-> 0]]
    /\ inbox = [u \in UserIds |-> BusMailbox]
    /\ spam = [u \in UserIds |-> [m \in Msgs |-> 0]]
    /\ jobs = <<>>
    /\ log = <<>>
    /\ clock = 0
    /\ streams = [s \in {} |-> IdleStream]
    /\ published = [c \in Channels |-> <<>>]
    /\ faults = MaxFaults - 1
    /\ calls = <<>>
    /\ session = NoSession
    /\ trash = EmptyFolder

\* Reading operations are called on either folder, changing ones on INBOX,
\* delete_email on Trash as well.
SessionNext ==
    \/ \E failAt \in ConnectOutcomes : SessionConnect(failAt)
    \/ \E okLogout \in BOOLEAN : SessionDisconnect(okLogout)
    \/ \E failAt \in FailPoints : SessionListFolders(failAt)
    \/ \E folder \in Folders, failAt \in FailPoints : SessionListEmails(folder, failAt)
    \/ \E folder \in Folders, m \in Msgs, failAt \in FailPoints :
           SessionGetEmailDetail(folder, m, failAt)
    \/ \E m \in Msgs, failAt \in FailPoints : SessionMarkAsRead("INBOX", m, failAt)
    \/ \E m \in Msgs, failAt \in FailPoints : SessionMarkAsUnread("INBOX", m, failAt)
    \/ \E m \in Msgs, dest \in {"Spam", "Trash"}, failAt \in FailPoints :
           SessionMoveEmail("INBOX", m, dest, failAt)
    \/ \E folder \in {"INBOX", "Trash"}, m \in Msgs, failAt \in FailPoints,
          fallbackFailAt \in FailPoints :
           SessionDeleteEmail(folder, m, failAt, fallbackFailAt)
    \/ \E folder \in Folders, failAt \in FailPoints : SessionSearchEmails(folder, failAt)

\* One session object: connect, and up to two calls in any order, each an
\* operation with any arguments or a disconnect.
SessionSpec == SessionInit /\ [][SessionNext]_vars

DeadlineNext ==
    \/ Next
    \/ \E j \in DOMAIN jobs, closed \in BOOLEAN : TimeLimitExceeded(j, closed)

\* Jobs whose mail session may hang at any call until the time limit.
DeadlineSpec == OverlapInit /\ [][DeadlineNext]_vars

\* The jobs one tick queued for users 1 and 2, both active and monitoring, and
\* two failures to spend.
CrewInit ==
    /\ users = [u \in UserIds |->
                   [is_active |-> TRUE, is_monitoring |-> TRUE, last_sync_time |-> 0]]
    /\ inbox = [u \in UserIds |-> BusMailbox]
    /\ spam = [u \in UserIds |-> [m \in Msgs |-> 0]]
    /\ jobs = [j \in {1, 2} |-> [IdleJob EXCEPT !.pc = "queued", !.uid = j]]
    /\ log = [j \in {1, 2} |-> <<>>]
    /\ clock = 0
    /\ streams = [s \in {} |-> IdleStream]
    /\ published = [c \in Channels |-> <<>>]
    /\ faults = MaxFaults - 2
    /\ calls = <<>>
    /\ session = NoSession
    /\ trash = EmptyFolder

\* The jobs of two users of one tick, side by side.
CrewSpec == CrewInit /\ [][Next]_vars

\* Two SSE requests of monitoring users, side by side.
FanInit ==
    /\ users = [u \in UserIds |->
                   [is_active |-> TRUE, is_monitoring |-> TRUE, last_sync_time |-> 0]]
    /\ inbox = [u \in UserIds |-> BusMailbox]
    /\ spam = [u \in UserIds |-> [m \in Msgs |-> 0]]
    /\ jobs = [j \in JobIds |-> IdleJob]
    /\ log = [j \in JobIds |-> <<>>]
    /\ clock = 0
    /\ streams = [s \in {1, 2} |-> IdleStream]
    /\ published = [c \in Channels |-> <<>>]
    /\ faults = MaxFaults - 1
    /\ calls = <<>>
    /\ session = NoSession
    /\ trash = EmptyFolder

\* One invocation of the task publishing to two SSE requests; at most one
\* command or call fails.
FanSpec == FanInit /\ [][BusNext]_vars

DetailNext == GetEmailDetailCall

\* One get_email_detail on any message of up to MaxParts parts.
DetailSpec == SessionInit /\ [][DetailNext]_vars

\* Every user active and monitoring, no job yet, one failure to spend.
RetryInit ==
    /\ users = [u \in UserIds |->
                   [is_active |-> TRUE, is_monitoring |-> TRUE, last_sync_time |-> 0]]
    /\ inbox = [u \in UserIds |-> BusMailbox]
    /\ spam = [u \in UserIds |-> [m \in Msgs |-> 0]]
    /\ jobs = <<>>
    /\ log = <<>>
    /\ clock = 0
    /\ streams = [s \in {} |-> IdleStream]
    /\ published = [c \in Channels |-> <<>>]
    /\ faults = MaxFaults - 1
    /\ calls = <<>>
    /\ session = NoSession
    /\ trash = EmptyFolder

RetryNext == monitor_all_users \/ Next

\* One tick of the scheduler and the jobs it queued, one of which may fail.
RetrySpec == RetryInit /\ [][RetryNext]_vars

\* Every user active, user 1 monitoring, one task invocation and the SSE
\* requests still to come; at most one command or call fails.
StayInit ==
    /\ users = [u \in UserIds |->
                   [is_active |-> TRUE, is_monitoring |-> u = 1, last_sync_time |-> 0]]
    /\ inbox = [u \in UserIds |-> BusMailbox]
    /\ spam = [u \in UserIds |-> [m \in Msgs |-> 0]]
    /\ jobs = [j \in JobIds |-> IdleJob]
    /\ log = [j \in JobIds |-> <<>>]
    /\ clock = 0
    /\ streams = [s \in StreamIds |-> IdleStream]
    /\ published = [c \in Channels |-> <<>>]
    /\ faults = MaxFaults - 1
    /\ calls = <<>>
    /\ session = NoSession
    /\ trash = EmptyFolder

StayNext ==
    \/ BusNext
    \/ \E u \in UserIds : LogoutRequest(u)

\* A task invocation publishing, SSE requests coming and going, and one user
\* logging out at any time.
StaySpec == StayInit /\ [][StayNext]_vars

(* ------------------------------------------------------------------ *)
(* Reading a job's log                                                *)
(* ------------------------------------------------------------------ *)
IsPublish(e) == e.op = "PUBLISH"

IsMailCommand(e) ==
    e.op \in {"CONNECT", "LOGIN", "SELECT", "SEARCH", "FETCH", "COPY", "STORE",
              "EXPUNGE", "LOGOUT"}

\* The publish calls of job j, in order.
PublishCalls(j) == SelectSeq(log[j], IsPublish)

\* The IMAP commands of job j, in order.
MailCommands(j) == SelectSeq(log[j], IsMailCommand)

\* The row of its user as job j loaded it is the row the table holds now.
LastSyncUntouched(j) ==
    jobs[j].uid \in DOMAIN users =>
        users[jobs[j].uid].last_sync_time = jobs[j].user.last_sync_time

(* ------------------------------------------------------------------ *)
(* Properties                                                         *)
(* ------------------------------------------------------------------ *)
\* Job j has loaded a row that is missing, inactive or not monitoring.
Skipped(j) ==
    /\ jobs[j].pc # "idle"
    /\ \A i \in DOMAIN log[j] : log[j][i].op # "QUERY"
    /\ ~jobs[j].user.known \/ ~jobs[j].user.is_active \/ ~jobs[j].user.is_monitoring

\* C1: a job for a user that does not exist, is not active or is not
\* monitoring is a no-op: it is over at once, has issued no IMAP command and
\* no publish call, no event is on the user's channel, and last_sync_time is
\* as it was.
C1_SkippedJobIsNoOp ==
    \A j \in DOMAIN jobs :
        Skipped(j) =>
            /\ jobs[j].pc = "done"
            /\ log[j] = <<>>
            /\ published[PublishChannel(jobs[j].uid)] = <<>>
            /\ ~jobs[j].committed
            /\ LastSyncUntouched(j)

\* A job returned early for an existing, active user who is not monitoring.
C1_Witness ==
    \E j \in DOMAIN jobs :
        /\ jobs[j].pc = "done"
        /\ jobs[j].user.known /\ jobs[j].user.is_active /\ ~jobs[j].user.is_monitoring

\* The session of job j failed to open: IMAPClient(...) or login raised.
ConnectFailed(j) ==
    \E i \in DOMAIN log[j] : log[j][i].op \in {"CONNECT", "LOGIN"} /\ ~log[j][i].ok

\* C2: when opening the mail session fails, the job ends there: it makes
\* exactly one publish call, for an error event without email_id on the
\* user's channel (the event is on the channel unless Redis refused it); it
\* issues no mail command after the one that failed and does not connect a
\* second time; last_sync_time is as it was.
C2_ConnectFailureEndsJob ==
    \A j \in DOMAIN jobs :
        ConnectFailed(j) =>
            LET pubs == PublishCalls(j)
                cmds == MailCommands(j)
            IN /\ jobs[j].pc = "done"
               /\ Len(pubs) = 1
               /\ pubs[1].arg = "error" /\ pubs[1].id = 0
               /\ published[PublishChannel(jobs[j].uid)] =
                      (IF pubs[1].ok THEN <<JobError(jobs[j].uid)>> ELSE <<>>)
               /\ ~cmds[Len(cmds)].ok
               /\ \A i \in DOMAIN cmds : cmds[i].op \in {"CONNECT", "LOGIN"}
               /\ Cardinality({i \in DOMAIN cmds : cmds[i].op = "CONNECT"}) = 1
               /\ ~jobs[j].committed
               /\ LastSyncUntouched(j)

\* A login was refused and the error event reached the channel.
C2_Witness ==
    \E j \in DOMAIN jobs :
        /\ \E i \in DOMAIN log[j] : log[j][i].op = "LOGIN" /\ ~log[j][i].ok
        /\ published[PublishChannel(jobs[j].uid)] = <<JobError(jobs[j].uid)>>

\* C3: a job that is over has closed the session it opened: no connection
\* to the server is left without a logout.
C3_SessionClosedOnEveryExit ==
    \A j \in DOMAIN jobs :
        jobs[j].pc = "done" => jobs[j].conn \in {"none", "closed"}

\* A job is over, its client object exists and was never logged out.
C3_LeakedConnection ==
    \E j \in DOMAIN jobs :
        /\ jobs[j].pc = "done"
        /\ jobs[j].client /\ jobs[j].conn = "open"
        /\ \A i \in DOMAIN log[j] : log[j][i].op # "LOGOUT"

\* Job j got uid m in its batch and the fetch of its detail or its
\* classification raised.
FetchOrClassifyFailed(j, m) ==
    \E i \in DOMAIN log[j] :
        /\ log[j][i].id = m /\ ~log[j][i].ok
        /\ \/ log[j][i].op = "FETCH" /\ log[j][i].arg = "RFC822"
           \/ log[j][i].op = "CLASSIFY"

\* Job j asked for the detail of uid m.
Fetched(j, m) ==
    \E i \in DOMAIN log[j] :
        log[j][i].op = "FETCH" /\ log[j][i].arg = "RFC822" /\ log[j][i].id = m

\* C4: a failure while fetching or classifying one unread message makes
\* exactly one publish call for an error event carrying that message's id
\* and does not abort the batch: when the job is over, every message of the
\* batch has been fetched.
C4_FailureDoesNotAbortBatch ==
    \A j \in DOMAIN jobs : \A m \in DOMAIN jobs[j].listed :
        FetchOrClassifyFailed(j, m) =>
            /\ Cardinality({i \in DOMAIN log[j] :
                   /\ log[j][i].op = "PUBLISH" /\ log[j][i].arg = "error"
                   /\ log[j][i].id = m}) = 1
            /\ jobs[j].pc = "done" => \A n \in DOMAIN jobs[j].listed : Fetched(j, n)

\* A job is over, one message of its batch failed to fetch or classify and
\* a later message of the batch was never fetched.
C4_BatchAborted ==
    \E j \in DOMAIN jobs : \E m, n \in DOMAIN jobs[j].listed :
        /\ jobs[j].pc = "done"
        /\ FetchOrClassifyFailed(j, m)
        /\ ~Fetched(j, n)

\* Job j ran to its end and no command and no call of it failed.
CleanRun(j) ==
    jobs[j].pc = "done" /\ jobs[j].committed /\ Failed(log[j]) = {}

\* The uids of the batch of job j the classifier calls spam.
SpamOf(j) ==
    {m \in DOMAIN jobs[j].listed : predict_with_confidence(jobs[j].listed[m].text)[1]}

\* The event a clean run publishes for uid m of its batch.
ExpectedEvent(j, m) ==
    IF m \in SpamOf(j)
    THEN SpamDetected(jobs[j].uid, m, predict_with_confidence(jobs[j].listed[m].text)[2])
    ELSE NewEmail(jobs[j].uid, m)

\* What C5 says of the events, the Spam folder and last_sync_time after a
\* clean run.
CleanRunEffects(j) ==
    LET user_id == jobs[j].uid
        events == published[PublishChannel(user_id)]
    IN /\ Len(events) = Cardinality(DOMAIN jobs[j].listed)
       /\ \A m \in DOMAIN jobs[j].listed :
              \E i \in DOMAIN events : events[i] = ExpectedEvent(j, m)
       /\ \A m \in SpamOf(j) :
              m \notin DOMAIN inbox[user_id] /\ spam[user_id][m] = 1
       /\ \A m \in DOMAIN jobs[j].listed \ SpamOf(j) : spam[user_id][m] = 0
       /\ users[user_id].last_sync_time > jobs[j].user.last_sync_time

\* What the code does guarantee of a clean run over n unread messages of
\* which k are spam: one event per message (spam_detected with the message's
\* confidence for the k, new_email for the others), the k gone from INBOX
\* and in Spam, last_sync_time advanced, and each of the other n-k still in
\* INBOX unless it carried the \Deleted flag and k >= 1.
CleanRunOutcome ==
    \A j \in DOMAIN jobs :
        CleanRun(j) =>
            /\ CleanRunEffects(j)
            /\ \A m \in DOMAIN jobs[j].listed \ SpamOf(j) :
                   m \in DOMAIN inbox[jobs[j].uid]
                       <=> ~(jobs[j].listed[m].deleted /\ SpamOf(j) # {})

\* C5: after a run in which the session opens and every fetch,
\* classification, move and publish succeeds, over n unread messages of
\* which k are spam, there is one event per message (spam_detected with the
\* message's confidence for the k, new_email for the others), the k are gone
\* from INBOX and in Spam, the other n-k are still in INBOX, and
\* last_sync_time has advanced.
C5_CleanRun ==
    \A j \in DOMAIN jobs :
        CleanRun(j) =>
            /\ CleanRunEffects(j)
            /\ \A m \in DOMAIN jobs[j].listed \ SpamOf(j) :
                   m \in DOMAIN inbox[jobs[j].uid]

\* A clean run over two unread messages, one of them spam, after which the
\* other one is gone from INBOX and is not in Spam.
C5_HamExpunged ==
    \E j \in DOMAIN jobs : \E m \in DOMAIN jobs[j].listed \ SpamOf(j) :
        /\ CleanRun(j)
        /\ Cardinality(DOMAIN jobs[j].listed) = 2
        /\ Cardinality(SpamOf(j)) = 1
        /\ m \notin DOMAIN inbox[jobs[j].uid]
        /\ spam[jobs[j].uid][m] = 0

\* Entry i of the log of job j is a command of a move that failed.
MoveFailedAt(j, i) ==
    /\ ~log[j][i].ok
    /\ \/ log[j][i].op \in {"COPY", "STORE", "EXPUNGE"}
       \/ log[j][i].op = "SELECT" /\ log[j][i].arg = "INBOX:rw"

\* The uid job j was processing when it wrote entry i: that of the last
\* classification before it.
MessageAt(j, i) ==
    LET k == CHOOSE x \in 1..i :
                 /\ log[j][x].op = "CLASSIFY"
                 /\ \A y \in (x + 1)..i : log[j][y].op # "CLASSIFY"
    IN log[j][k].id

\* C6: a spam_detected event is published only right after the four
\* commands of the move of that message succeeded; after a move that failed
\* there is no spam_detected call for the message, the move is not tried
\* again, and the job goes on: to the next message, or to the end of the
\* loop, where it logs out and commits.
C6_SpamEventOnlyAfterMove ==
    \A j \in DOMAIN jobs : \A i \in DOMAIN log[j] :
        /\ (log[j][i].op = "PUBLISH" /\ log[j][i].arg = "spam_detected") =>
               /\ i > 4
               /\ log[j][i - 4] = Cmd("SELECT", 0, "INBOX:rw", TRUE)
               /\ log[j][i - 3] = Cmd("COPY", log[j][i].id, "Spam", TRUE)
               /\ log[j][i - 2] = Cmd("STORE", log[j][i].id, "+Deleted", TRUE)
               /\ log[j][i - 1] = Cmd("EXPUNGE", 0, "INBOX", TRUE)
        /\ MoveFailedAt(j, i) =>
               LET m == MessageAt(j, i)
               IN /\ \A k \in DOMAIN log[j] :
                         ~(/\ log[j][k].op = "PUBLISH"
                           /\ log[j][k].arg = "spam_detected"
                           /\ log[j][k].id = m)
                  /\ Cardinality({k \in DOMAIN log[j] :
                         /\ log[j][k].op = "SELECT" /\ log[j][k].arg = "INBOX:rw"
                         /\ MessageAt(j, k) = m}) = 1
                  /\ i = Len(log[j]) =>
                         /\ jobs[j].pc = "process"
                         /\ m \notin Range(jobs[j].batch)
                  /\ i < Len(log[j]) =>
                         \/ log[j][i + 1] = Cmd("SELECT", 0, "INBOX:ro", TRUE)
                         \/ /\ log[j][i + 1].op = "LOGOUT"
                            /\ i + 1 = Len(log[j]) => jobs[j].committed
                            /\ i + 1 < Len(log[j]) =>
                                   log[j][i + 2] = Cmd("COMMIT", 0, "", FALSE)

\* A move failed, and later in the same run another message was moved and
\* its spam_detected event published.
C6_Witness ==
    \E j \in DOMAIN jobs : \E i, k \in DOMAIN log[j] :
        /\ MoveFailedAt(j, i)
        /\ i < k
        /\ log[j][k].op = "PUBLISH" /\ log[j][k].arg = "spam_detected" /\ log[j][k].ok
        /\ log[j][k].id # MessageAt(j, i)

\* The unread listing of job j succeeded.
ListingSucceeded(j) ==
    \E i \in DOMAIN log[j] : log[j][i].op = "SEARCH" /\ log[j][i].ok

\* C7: once the session has opened and the unread listing has succeeded,
\* the job ends with last_sync_time updated and persisted.
C7_LastSyncUpdatedAfterListing ==
    \A j \in DOMAIN jobs :
        (jobs[j].pc = "done" /\ ListingSucceeded(j)) =>
            /\ jobs[j].committed
            /\ users[jobs[j].uid].last_sync_time > jobs[j].user.last_sync_time

\* A job is over whose listing succeeded, one message of which failed to
\* fetch, and which left last_sync_time as it was.
C7_LastSyncSkipped ==
    \E j \in DOMAIN jobs :
        /\ jobs[j].pc = "done" /\ ListingSucceeded(j)
        /\ \E m \in DOMAIN jobs[j].listed : FetchOrClassifyFailed(j, m)
        /\ ~jobs[j].committed
        /\ users[jobs[j].uid].last_sync_time = jobs[j].user.last_sync_time

\* A publish call of job j for the event of one message raised.
PublishFailedForMessage(j) ==
    \E i \in DOMAIN log[j] :
        log[j][i].op = "PUBLISH" /\ log[j][i].id # 0 /\ ~log[j][i].ok

\* C8: a publish call that fails for the event of one message (new_email,
\* spam_detected or error) is swallowed: the job still processes every
\* message of the batch and still updates last_sync_time.
C8_PublishFailureSwallowed ==
    \A j \in DOMAIN jobs :
        (jobs[j].pc = "done" /\ PublishFailedForMessage(j)) =>
            /\ \A m \in DOMAIN jobs[j].listed : Fetched(j, m)
            /\ jobs[j].committed

\* A job is over in which the publish call for a message's error event
\* raised and which did not update last_sync_time.
C8_PublishFailureEscalated ==
    \E j \in DOMAIN jobs : \E i \in DOMAIN log[j] :
        /\ jobs[j].pc = "done"
        /\ log[j][i].op = "PUBLISH" /\ log[j][i].arg = "error"
        /\ log[j][i].id # 0 /\ ~log[j][i].ok
        /\ ~jobs[j].committed

IsMessage(message) == message.type = "message"

IsEmailEvent(item) == item.event = "email_event"

\* The payloads of a sequence of pub/sub messages or of SSE items.
Data(q) == [i \in DOMAIN q |-> q[i].data]

\* The events stream s has yielded to its client, in order.
Emitted(s) == Data(SelectSeq(streams[s].out, IsEmailEvent))

\* The events the connection of stream s holds for listen() to yield.
Buffered(s) == Data(SelectSeq(streams[s].queue, IsMessage))

\* C9: no event crosses users.  An event is on the channel of the user_id
\* of the publish call that carried it; a stream subscribes to the channel
\* of its own user only; whatever a stream for V has yielded or holds to
\* yield was published for V, and each event it yielded is on V's channel.
C9_NoCrossUserLeak ==
    /\ \A u \in TaskUserIds : \A i \in DOMAIN published[PublishChannel(u)] :
           published[PublishChannel(u)][i].user = u
    /\ \A c \in Channels : \A i \in DOMAIN published[c] :
           c = <<"email_events:user", published[c][i].user>>
    /\ \A s \in DOMAIN streams :
           /\ streams[s].subscribed =>
                  streams[s].channel = <<"email_events:user", streams[s].uid>>
           /\ \A i \in DOMAIN streams[s].out : streams[s].out[i].data.user = streams[s].uid
           /\ \A i \in DOMAIN streams[s].queue :
                  streams[s].queue[i].data.user = streams[s].uid
           /\ \A i \in DOMAIN Emitted(s) :
                  \E k \in DOMAIN published[<<"email_events:user", streams[s].uid>>] :
                      published[<<"email_events:user", streams[s].uid>>][k] = Emitted(s)[i]

\* A stream for V is listening, and since it subscribed an event was
\* published on the channel of another user.
C9_Witness ==
    \E s \in DOMAIN streams : \E c \in Channels :
        /\ streams[s].pc = "listening"
        /\ c # streams[s].channel
        /\ Len(published[c]) > streams[s].subAt[c]

\* C10: nothing is replayed and nothing is lost.  What a subscribed stream
\* has yielded, followed by what its connection holds to yield, is exactly
\* the events published on its channel since it subscribed, in the order
\* they were published.
C10_NoReplayNoLoss ==
    \A s \in DOMAIN streams :
        streams[s].subscribed =>
            Emitted(s) \o Buffered(s) =
                SubSeq(published[streams[s].channel],
                       streams[s].subAt[streams[s].channel] + 1,
                       Len(published[streams[s].channel]))

\* A stream subscribed after the first event of its channel and has yielded
\* the second.
C10_Witness ==
    \E s \in DOMAIN streams :
        /\ streams[s].subscribed
        /\ streams[s].subAt[streams[s].channel] = 1
        /\ Len(published[streams[s].channel]) = 2
        /\ Emitted(s) = <<published[streams[s].channel][2]>>

\* C12: a request to open the stream by a user whose is_monitoring is false
\* is answered with the forbidden error and nothing else happens for it: no
\* Redis connection, no subscription, nothing buffered, nothing yielded.
C12_RejectedWithoutSubscription ==
    \A s \in DOMAIN streams :
        (streams[s].pc # "idle" /\ ~users[streams[s].uid].is_monitoring) =>
            /\ streams[s].pc = "rejected"
            /\ streams[s].redis = "none"
            /\ ~streams[s].subscribed
            /\ streams[s].channel = <<>>
            /\ streams[s].queue = <<>>
            /\ streams[s].out = <<>>

\* A request was rejected.
C12_Witness ==
    \E s \in DOMAIN streams :
        streams[s].pc = "rejected" /\ ~users[streams[s].uid].is_monitoring

\* C13: the first item a stream yields is the connected event; when
\* anything has been yielded, the subscription to the user's channel is in
\* place; every later item is a bus event, and before the connected event
\* nothing is yielded, whatever the connection has already received.
C13_ConnectedFirst ==
    \A s \in DOMAIN streams :
        /\ streams[s].pc \in {"idle", "rejected", "accepted", "subscribed"} =>
               streams[s].out = <<>>
        /\ streams[s].out # <<>> =>
               /\ streams[s].out[1] = ConnectedItem(streams[s].uid)
               /\ streams[s].subscribed /\ streams[s].redis = "open"
               /\ streams[s].channel = <<"email_events:user", streams[s].uid>>
               /\ \A i \in 2..Len(streams[s].out) :
                      streams[s].out[i].event = "email_event"

\* A stream has subscribed and holds a bus event while it has not yet
\* yielded the connected event.
C13_Witness ==
    \E s \in DOMAIN streams :
        streams[s].pc = "subscribed" /\ Buffered(s) # <<>>

\* a is an initial part of b.
IsPrefix(a, b) == Len(a) <= Len(b) /\ SubSeq(b, 1, Len(a)) = a

\* C14: between the subscription and the client nothing is dropped,
\* duplicated or reordered.  In every step of a stream that stays subscribed,
\* what it has yielded only grows at its end, and what it has yielded
\* followed by what its connection holds only grows at its end: a message
\* that arrived is yielded once, after those that arrived before it.
C14_EmittedOnceInOrder ==
    [][\A s \in DOMAIN streams :
          (streams[s].subscribed /\ streams'[s].subscribed) =>
              /\ IsPrefix(Emitted(s), Emitted(s)')
              /\ IsPrefix(Emitted(s) \o Buffered(s), Emitted(s)' \o Buffered(s)')]_vars

\* A stream has yielded two bus events, the ones published on its channel,
\* in the order they were published.
C14_Witness ==
    \E s \in DOMAIN streams :
        /\ streams[s].subscribed
        /\ Len(Emitted(s)) = 2
        /\ Emitted(s) = published[streams[s].channel]

\* C15: a stream that has ended holds no subscription and no open Redis
\* connection.
C15_NothingOutlivesStream ==
    \A s \in DOMAIN streams :
        streams[s].pc = "closed" =>
            ~streams[s].subscribed /\ streams[s].redis \in {"none", "closed"}

\* A stream has ended and its Redis connection is open and subscribed.
C15_LeakedSubscription ==
    \E s \in DOMAIN streams :
        streams[s].pc = "closed" /\ streams[s].redis = "open" /\ streams[s].subscribed

\* a is a final part of b.
IsSuffix(a, b) ==
    Len(a) <= Len(b) /\ SubSeq(b, Len(b) - Len(a) + 1, Len(b)) = a

\* Stream s is connected: its generator is subscribed and has not ended.
Connected(s) ==
    streams[s].subscribed /\ streams[s].pc \in {"subscribed", "listening"}

\* C11: streams open side by side for one user each get their own copy.
\* For two connected streams of the same channel, the events published on
\* it since both were subscribed are the last ones each of them has yielded
\* or holds to yield, whatever the other has already taken.
C11_EachStreamOwnCopy ==
    \A s, t \in DOMAIN streams :
        (s # t /\ Connected(s) /\ Connected(t)
              /\ streams[s].channel = streams[t].channel) =>
            LET c == streams[s].channel
                from == IF streams[s].subAt[c] > streams[t].subAt[c]
                        THEN streams[s].subAt[c] ELSE streams[t].subAt[c]
                both == SubSeq(published[c], from + 1, Len(published[c]))
            IN IsSuffix(both, Emitted(s) \o Buffered(s))

\* Two connected streams of one user: one has yielded an event that the
\* other still holds to yield.
C11_Witness ==
    \E s, t \in DOMAIN streams :
        /\ s # t /\ Connected(s) /\ Connected(t)
        /\ streams[s].uid = streams[t].uid
        /\ Emitted(s) # <<>> /\ Emitted(t) = <<>>
        /\ Buffered(t) # <<>> /\ Buffered(t)[1] = Emitted(s)[1]

\* The jobs that are in jobs' and were not in jobs.
Dispatched == DOMAIN jobs' \ DOMAIN jobs

\* C16: a tick of monitor_all_users queues exactly one job for every user
\* who is active and monitoring when it queries the table and none for any
\* other user, and when it returns every job it queued is still waiting and
\* no other job has moved.
C16_TickDispatchesOnePerUser ==
    [][calls' # calls =>
          /\ \A u \in UserIds :
                 Cardinality({j \in Dispatched : jobs'[j].uid = u}) =
                     (IF users[u].is_active /\ users[u].is_monitoring THEN 1 ELSE 0)
          /\ \A j \in Dispatched : jobs'[j].uid \in UserIds /\ jobs'[j].pc = "queued"
          /\ \A j \in DOMAIN jobs : jobs'[j] = jobs[j]
          /\ DOMAIN jobs \subseteq DOMAIN jobs']_vars

\* After a tick a job waits for one user and none was queued for another.
C16_Witness ==
    /\ calls # <<>>
    /\ \E j \in DOMAIN jobs : jobs[j].pc = "queued"
    /\ \E u \in UserIds : \A j \in DOMAIN jobs : jobs[j].uid # u

\* C17: when two jobs of one user overlap, every message a job listed as
\* unread is in INBOX or in Spam, and every event published for it is the
\* event a job running alone publishes for it.
C17_OverlapOnlyDuplicates ==
    \A j \in DOMAIN jobs : \A m \in DOMAIN jobs[j].listed :
        LET user_id == jobs[j].uid
            events == published[PublishChannel(user_id)]
        IN /\ m \in DOMAIN inbox[user_id] \/ spam[user_id][m] >= 1
           /\ \A i \in DOMAIN events :
                  events[i].email_id = m => events[i] = ExpectedEvent(j, m)

\* No command and no call failed by itself, both jobs are over, and an
\* error event was published for a message that is in Spam.
C17_SpuriousError ==
    /\ \A j \in DOMAIN jobs : jobs[j].pc = "done" /\ jobs[j].committed
    /\ \E j \in DOMAIN jobs : \E m \in DOMAIN jobs[j].listed :
           /\ spam[jobs[j].uid][m] >= 1
           /\ \E i \in DOMAIN published[PublishChannel(jobs[j].uid)] :
                  published[PublishChannel(jobs[j].uid)][i] = EmailError(jobs[j].uid, m)

\* What does hold when two jobs of one user overlap: no message a job
\* listed as unread is in neither folder.
OverlapNeverLoses ==
    \A j \in DOMAIN jobs : \A m \in DOMAIN jobs[j].listed :
        m \in DOMAIN inbox[jobs[j].uid] \/ spam[jobs[j].uid][m] >= 1

\* The recorded calls are moves of one message of one user, and INBOX held
\* the message when the first of them began.
MovesOfOneMessage ==
    /\ calls # <<>>
    /\ \A i \in DOMAIN calls :
           /\ calls[i].op = "move_email"
           /\ calls[i].user = calls[1].user
           /\ calls[i].id = calls[1].id
    /\ calls[1].present

\* C18: a message of INBOX that is moved to Spam, and moved again or moved
\* again after the first move was left at any of its commands, is never in
\* neither folder, and is in Spam once a move got past its copy.
C18_RepeatedMoveNeverLoses ==
    MovesOfOneMessage =>
        LET user_id == calls[1].user
            m == calls[1].id
        IN /\ m \in DOMAIN inbox[user_id] \/ spam[user_id][m] >= 1
           /\ (\E i \in DOMAIN calls : calls[i].failAt \notin {"select", "copy"})
                  => spam[user_id][m] >= 1

\* A move left between its copy and its flag command, then repeated to its
\* end: the message is twice in Spam and no longer in INBOX.
C18_Witness ==
    /\ MovesOfOneMessage
    /\ Len(calls) = 2
    /\ calls[1].failAt = "flags"
    /\ calls[2].failAt = "ok"
    /\ spam[calls[1].user][calls[1].id] = 2
    /\ calls[1].id \notin DOMAIN inbox[calls[1].user]

\* A complete move repeated: the second call changes nothing.
C18_MovedTwice ==
    /\ MovesOfOneMessage
    /\ Len(calls) = 2
    /\ calls[1].failAt = "ok"
    /\ calls[2].failAt = "ok"
    /\ spam[calls[1].user][calls[1].id] = 1
    /\ calls[1].id \notin DOMAIN inbox[calls[1].user]

\* The uids of box that match SEARCH UNSEEN or SEARCH ALL.
Matching(box, only_unread) == {m \in DOMAIN box : only_unread => ~box[m].seen}

\* The n greatest uids of S, or all of S if it has fewer.
MostRecent(n, S) == {m \in S : Cardinality({x \in S : x > m}) < n}

\* Call i asked for the first page of k and call j, after it, for the second
\* page of k of the same search.
ConsecutivePages(i, j) ==
    /\ i < j
    /\ calls[i].op = "list_emails" /\ calls[j].op = "list_emails"
    /\ calls[i].user = calls[j].user
    /\ calls[i].only_unread = calls[j].only_unread
    /\ calls[i].offset = 0
    /\ calls[j].offset = calls[i].limit
    /\ calls[j].limit = calls[i].limit

\* C19: over an unchanged mailbox the page at offset 0 and the page at offset
\* k, both of limit k, hold no uid twice, share no uid, and together hold
\* exactly the 2k most recent matching uids (all of them if fewer exist).
C19_PagesPartitionMostRecent ==
    \A i, j \in DOMAIN calls :
        ConsecutivePages(i, j) =>
            LET first == calls[i].result
                second == calls[j].result
                k == calls[i].limit
                box == inbox[calls[i].user]
            IN /\ Cardinality(Range(first)) = Len(first)
               /\ Cardinality(Range(second)) = Len(second)
               /\ Range(first) \cap Range(second) = {}
               /\ Range(first) \cup Range(second)
                     = MostRecent(2 * k, Matching(box, calls[i].only_unread))

\* Two full pages of two over a search that matches four messages.
C19_Witness ==
    \E i, j \in DOMAIN calls :
        /\ ConsecutivePages(i, j)
        /\ calls[i].limit = 2
        /\ Len(calls[i].result) = 2 /\ Len(calls[j].result) = 2
        /\ Cardinality(Matching(inbox[calls[i].user], calls[i].only_unread)) = 4

\* C20: the list a list_emails call returns is the offset/limit slice of the
\* reversed ascending uid order, in that order.
C20_PageMostRecentFirst ==
    \A i \in DOMAIN calls :
        calls[i].op = "list_emails" =>
            calls[i].result = paginated_messages(inbox[calls[i].user], calls[i].limit,
                                                 calls[i].offset, calls[i].only_unread)

\* A call returned a page of two or more oldest-first, the order of the
\* server's FETCH response.
C20_PageOldestFirst ==
    \E i \in DOMAIN calls :
        /\ calls[i].op = "list_emails"
        /\ Len(calls[i].result) >= 2
        /\ \A a, b \in DOMAIN calls[i].result :
               a < b => calls[i].result[a] < calls[i].result[b]
        /\ Range(calls[i].result)
             = Range(paginated_messages(inbox[calls[i].user], calls[i].limit,
                                        calls[i].offset, calls[i].only_unread))

\* C21: a listing answered by the endpoint or made by the monitoring task
\* never holds more than limit messages and never more than 100.
C21_ListingBounded ==
    \A i \in DOMAIN calls :
        (calls[i].op \in {"GET /emails", "get_unread_emails"} /\ calls[i].status = 200)
            => /\ Len(calls[i].result) <= calls[i].limit
               /\ Len(calls[i].result) <= LimitCap

\* The endpoint accepted a negative limit and answered with messages: the
\* slice [offset:offset+limit] ends counted from the end of the list.
C21_NegativeLimit ==
    \E i \in DOMAIN calls :
        /\ calls[i].op = "GET /emails"
        /\ calls[i].status = 200
        /\ calls[i].limit < 0
        /\ Len(calls[i].result) >= 2

\* C22: once delete_email(id, folder) has returned without error, whether
\* its move to Trash went through or failed at any command and the fallback
\* ran, folder no longer holds id.
C22_DeleteRemovesMessage ==
    \A i \in DOMAIN calls :
        (calls[i].op = "delete_email" /\ calls[i].folder = "INBOX"
            /\ calls[i].error = "none")
            => calls[i].id \notin DOMAIN inbox[1]

\* A delete_email of a message INBOX held returned without error after its
\* move to Trash had raised and the fallback had run.
C22_Witness ==
    \E i \in DOMAIN calls :
        /\ calls[i].op = "delete_email"
        /\ calls[i].folder = "INBOX"
        /\ calls[i].present
        /\ calls[i].fallback
        /\ calls[i].error = "none"
        /\ calls[i].id \notin DOMAIN inbox[1]

\* C23: an operation called on a session that is not connected (never
\* connected, connect failed, or closed by disconnect) fails with the
\* precondition error and makes no command call on the client.
C23_NotConnectedIsPrecondition ==
    \A i \in DOMAIN calls :
        (calls[i].op \notin {"monitor_all_users", "disconnect"} /\ calls[i].conn # "auth")
            => calls[i].error = "precondition" /\ calls[i].sent = 0

\* An operation called after disconnect passed the test of self.client, made
\* its first command call and failed with the error of that call.
C23_CommandAfterDisconnect ==
    \E i \in DOMAIN calls :
        /\ calls[i].conn = "closed"
        /\ calls[i].client
        /\ calls[i].error = "command"
        /\ calls[i].sent >= 1

\* C24: every flag change, copy and expunge a session sends is sent while
\* the folder of its own operation is selected, read-write.
C24_MutationsUnderOwnSelection ==
    \A k \in DOMAIN session.issued :
        session.issued[k].name \in MutatingCommands
            => /\ session.issued[k].sel.folder = session.issued[k].folder
               /\ ~session.issued[k].sel.readonly

\* A flag change on INBOX was sent by the operation that followed a listing
\* of Spam, which had left Spam selected read-only.
C24_Witness ==
    /\ Len(calls) = 2
    /\ calls[1].op = "list_emails" /\ calls[1].folder = "Spam" /\ calls[1].error = "none"
    /\ calls[2].op = "mark_as_read" /\ calls[2].folder = "INBOX" /\ calls[2].error = "none"
    /\ \E k \in DOMAIN session.issued :
           /\ session.issued[k].name = "STORE"
           /\ session.issued[k].ok
           /\ session.issued[k].sel = [folder |-> "INBOX", readonly |-> FALSE]

\* The error events without an email_id among the publish calls of job j.
JobErrorCalls(j) ==
    {i \in DOMAIN log[j] :
        IsPublish(log[j][i]) /\ log[j][i].arg = "error" /\ log[j][i].id = 0}

\* C25: a job ended by the deadline of the worker pool has its session
\* closed and has published one error event for its user.
C25_DeadlineClosesAndReports ==
    \A j \in DOMAIN jobs :
        jobs[j].pc = "killed" =>
            /\ jobs[j].conn \in {"none", "closed"}
            /\ Cardinality(JobErrorCalls(j)) = 1

\* A job was ended by the time limit while its session was open, and no
\* error event is on the channel of its user.
C25_KilledSilently ==
    \E j \in DOMAIN jobs :
        /\ jobs[j].pc = "killed"
        /\ jobs[j].client
        /\ JobErrorCalls(j) = {}
        /\ \A i \in DOMAIN published[PublishChannel(jobs[j].uid)] :
               published[PublishChannel(jobs[j].uid)][i].event_type # "error"

\* Stream s yields an item in this step, and the item carries an error event.
YieldsErrorEvent(s) ==
    /\ Len(streams'[s].out) = Len(streams[s].out) + 1
    /\ streams'[s].out[Len(streams'[s].out)].event = "email_event"
    /\ streams'[s].out[Len(streams'[s].out)].data.event_type = "error"

\* C26: an error event reaches the client as an ordinary item; the step that
\* yields it leaves the stream listening and subscribed, and leaves in its
\* buffer every event that arrived after the error event.
C26_ErrorEventInline ==
    [][\A s \in DOMAIN streams :
          (s \in DOMAIN streams' /\ YieldsErrorEvent(s)) =>
              /\ streams'[s].pc = "listening"
              /\ streams'[s].subscribed
              /\ streams'[s].redis = "open"
              /\ Emitted(s)' \o Buffered(s)' = Emitted(s) \o Buffered(s)]_vars

\* A stream has yielded an error event and, after it, a later event of its
\* user, and is still listening.
C26_Witness ==
    \E s \in DOMAIN streams :
        /\ streams[s].pc = "listening"
        /\ \E i \in DOMAIN Emitted(s) :
               /\ Emitted(s)[i].event_type = "error"
               /\ i < Len(Emitted(s))
               /\ Emitted(s)[i + 1].event_type # "error"

\* Decrypting the password or getting the classifier raised in job j.
SetupFailed(j) ==
    \E i \in DOMAIN log[j] : log[j][i].op = "SETUP" /\ ~log[j][i].ok

\* C27: a job whose credential could not be decrypted issues no IMAP
\* command and leaves last_sync_time as it was, and the step in which it
\* fails changes no other job, no folder, no user row and no other channel.
C27_CredentialFailureAbortsJob ==
    /\ [](\A j \in DOMAIN jobs :
             SetupFailed(j) =>
                 /\ jobs[j].pc = "done"
                 /\ MailCommands(j) = <<>>
                 /\ ~jobs[j].committed
                 /\ LastSyncUntouched(j))
    /\ [][\A j \in DOMAIN jobs :
             (~SetupFailed(j) /\ SetupFailed(j)') =>
                 /\ \A k \in DOMAIN jobs \ {j} : jobs'[k] = jobs[k] /\ log'[k] = log[k]
                 /\ inbox' = inbox /\ spam' = spam /\ users' = users
                 /\ \A c \in Channels \ {PublishChannel(jobs'[j].uid)} :
                        published'[c] = published[c]]_vars

\* The job of user 1 failed at its setup; the job of user 2, dispatched in
\* the same tick, ran to its end and committed.
C27_Witness ==
    /\ SetupFailed(1)
    /\ jobs[1].pc = "done"
    /\ jobs[2].pc = "done" /\ jobs[2].committed
    /\ Failed(log[2]) = {}
    /\ users[2].last_sync_time > 0
    /\ users[1].last_sync_time = 0

\* The publish calls of job j that Redis accepted and that carry uid m.
EventsFor(j, m) ==
    {i \in DOMAIN log[j] : IsPublish(log[j][i]) /\ log[j][i].ok /\ log[j][i].id = m}

\* C28: a job whose session opened and whose listing succeeded has, when it
\* is over, published exactly one event for every message it listed.
C28_OneEventPerMessage ==
    \A j \in DOMAIN jobs :
        (jobs[j].pc = "done" /\ ListingSucceeded(j)) =>
            \A m \in DOMAIN jobs[j].listed : Cardinality(EventsFor(j, m)) = 1

\* A job ran to its end and committed; the move of one spam message of its
\* batch failed, nothing else did, and no publish call was made for that
\* message.
C28_FailedMoveUnreported ==
    \E j \in DOMAIN jobs :
        /\ jobs[j].pc = "done" /\ jobs[j].committed /\ ListingSucceeded(j)
        /\ Cardinality(Failed(log[j])) = 1
        /\ \E i \in DOMAIN log[j] :
               /\ MoveFailedAt(j, i)
               /\ MessageAt(j, i) \in DOMAIN jobs[j].listed
               /\ \A k \in DOMAIN log[j] :
                      IsPublish(log[j][k]) => log[j][k].id # MessageAt(j, i)

\* Job j takes a step.
JobStep(j) == j \in DOMAIN jobs /\ j \in DOMAIN jobs' /\ jobs'[j] # jobs[j]

\* C29: a job reads is_active and is_monitoring when it starts and never
\* again.  A job that passed the test and in which nothing failed ends with
\* one event published for every message of its batch and last_sync_time
\* written, whatever the flags of its user have become; and a step of a job
\* changes the users table only if it is the last one, and then only the
\* last_sync_time of its own user.
C29_FlagsReadOnceAtStart ==
    /\ [](\A j \in DOMAIN jobs :
             (jobs[j].pc = "done" /\ ShouldRun(jobs[j].user) /\ Failed(log[j]) = {}) =>
                 /\ jobs[j].committed
                 /\ users[jobs[j].uid].last_sync_time > jobs[j].user.last_sync_time
                 /\ \A m \in DOMAIN jobs[j].listed : Cardinality(EventsFor(j, m)) = 1)
    /\ [][\A j \in DOMAIN jobs :
             (JobStep(j) /\ users' # users) =>
                 /\ jobs'[j].pc = "done" /\ jobs'[j].committed
                 /\ \A u \in DOMAIN users :
                        /\ users'[u].is_active = users[u].is_active
                        /\ users'[u].is_monitoring = users[u].is_monitoring
                        /\ u # jobs[j].uid => users'[u] = users[u]]_vars

\* A job that passed the test is half way through its batch, has published
\* an event, and its user has logged out in the meantime.
C29_Witness ==
    \E j \in DOMAIN jobs :
        /\ jobs[j].pc = "process"
        /\ ShouldRun(jobs[j].user)
        /\ Len(jobs[j].batch) = 1
        /\ PublishCalls(j) # <<>>
        /\ ~users[jobs[j].uid].is_monitoring

\* A job has run to its end and written last_sync_time for a user who is
\* not monitoring any more.
C29_CommittedAfterLogout ==
    \E j \in DOMAIN jobs :
        /\ jobs[j].pc = "done" /\ jobs[j].committed
        /\ ~users[jobs[j].uid].is_monitoring
        /\ users[jobs[j].uid].last_sync_time > 0

\* Job a moved uid m to Spam: the last command of a move of m succeeded.
MovedBy(a, m) ==
    \E i \in DOMAIN log[a] :
        log[a][i].op = "EXPUNGE" /\ log[a][i].ok /\ MessageAt(a, i) = m

\* Entry e records a fetch of the detail, a classification or a publish
\* call for a message.
Handles(e) ==
    /\ e.id # 0
    /\ \/ e.op = "FETCH" /\ e.arg = "RFC822"
       \/ e.op = "CLASSIFY"
       \/ e.op = "PUBLISH"

\* C30: a job fetches, classifies and reports only the messages its own
\* listing returned, and the listing of a job never returns a message a job
\* of the same user had moved to Spam before.
C30_MovedSpamNotReprocessed ==
    /\ [](\A b \in DOMAIN jobs : \A i \in DOMAIN log[b] :
             Handles(log[b][i]) => log[b][i].id \in DOMAIN jobs[b].listed)
    /\ [][\A b \in DOMAIN jobs :
             (b \in DOMAIN jobs' /\ jobs[b].pc = "list" /\ jobs'[b].pc = "process") =>
                 \A a \in DOMAIN jobs \ {b} : \A m \in Msgs :
                     (jobs[a].uid = jobs[b].uid /\ MovedBy(a, m))
                         => m \notin DOMAIN jobs'[b].listed]_vars

\* Job 1 moved an unread spam message; job 2 listed after the move, found
\* another unread message, and ran to its end without touching the moved
\* one.
C30_Witness ==
    \E m \in Msgs :
        /\ MovedBy(1, m)
        /\ spam[1][m] = 1
        /\ jobs[2].pc = "done" /\ jobs[2].committed
        /\ jobs[2].listed # <<>>
        /\ m \notin DOMAIN jobs[2].listed
        /\ \A i \in DOMAIN log[2] : log[2][i].id # m

\* The positions of the parts of a type that are not attachments.
BodyParts(parts, type) ==
    {i \in 1..Len(parts) : parts[i].content_type = type /\ ~parts[i].attachment}

\* The payload of the first part of a type in walk order, "" without one.
FirstPayload(parts, type) ==
    IF BodyParts(parts, type) = {} THEN ""
    ELSE LET first == CHOOSE i \in BodyParts(parts, type) :
                          \A k \in BodyParts(parts, type) : i <= k
         IN parts[first].payload

\* C31: for a multipart message get_email_detail returns as body_plain the
\* content of the first text/plain part in walk order and as body_html the
\* content of the first text/html part, whatever that content is; a later
\* part of the type never replaces it.
C31_FirstPartWins ==
    \A i \in 1..Len(calls) :
        (calls[i].op = "get_email_detail" /\ calls[i].is_multipart)
            => /\ calls[i].detail.body_plain = FirstPayload(calls[i].parts, "text/plain")
               /\ calls[i].detail.body_html = FirstPayload(calls[i].parts, "text/html")

\* C31: a message whose first text/plain part is empty and is followed by a
\* text/plain part with content; the later part's content is returned.
C31_EmptyFirstReplaced ==
    \E i \in 1..Len(calls) :
        /\ calls[i].op = "get_email_detail"
        /\ calls[i].is_multipart
        /\ Len(calls[i].parts) = 2
        /\ \A k \in 1..2 : /\ calls[i].parts[k].content_type = "text/plain"
                           /\ ~calls[i].parts[k].attachment
        /\ calls[i].parts[1].payload = ""
        /\ calls[i].parts[2].payload = "b"
        /\ calls[i].detail.body_plain = "b"

\* C31 (what does hold): a first part with content is never replaced.
C31_NonEmptyFirstWins ==
    \A i \in 1..Len(calls) :
        (calls[i].op = "get_email_detail" /\ calls[i].is_multipart)
            => /\ FirstPayload(calls[i].parts, "text/plain") # ""
                   => calls[i].detail.body_plain = FirstPayload(calls[i].parts, "text/plain")
               /\ FirstPayload(calls[i].parts, "text/html") # ""
                   => calls[i].detail.body_html = FirstPayload(calls[i].parts, "text/html")

\* A session without a connection to the server: never connected, or closed.
SessionClosed(conn) == conn \in {"none", "closed"}

\* No disconnect call has raised.
NoDisconnectRaised ==
    \A i \in DOMAIN calls : calls[i].op = "disconnect" => calls[i].error = "none"

\* A second disconnect, its logout returning or raising, leaves the session
\* where the first left it.
DisconnectIdempotent ==
    \A ok1 \in BOOLEAN, ok2 \in BOOLEAN :
        LET once == disconnect(session.client, session.conn, ok1)
            twice == disconnect(session.client, once.conn, ok2)
        IN ~twice.raised /\ twice.conn = once.conn

\* A step that is a disconnect call.
IsDisconnect == \E okLogout \in BOOLEAN : SessionDisconnect(okLogout)

JobsOf(u) == {j \in DOMAIN jobs : jobs[j].uid = u}

\* The attempts to open a mail session made for user u, over all jobs.
ConnectAttempts(u) ==
    UNION {{<<j, i>> : i \in {k \in DOMAIN log[j] : log[j][k].op = "CONNECT"}} :
              j \in JobsOf(u)}

\* Job j ended in the handler of the task body: setup, connect, login or the
\* listing raised.
FailedWhole(j) ==
    /\ jobs[j].pc = "done"
    /\ \E i \in DOMAIN log[j] :
           /\ log[j][i].op \in {"SETUP", "CONNECT", "LOGIN", "SELECT", "SEARCH", "FETCH"}
           /\ log[j][i].id = 0
           /\ ~log[j][i].ok

\* C33: a job is never run again within a tick: the tick queues one job per
\* user, each job opens a session at most once, and a job that has ended,
\* by failing at setup, connect, login or listing as well, takes no further
\* step.
C33_NoRetryWithinTick ==
    /\ [](\A u \in UserIds :
              /\ Cardinality(JobsOf(u)) <= Len(calls)
              /\ Cardinality(ConnectAttempts(u)) <= Cardinality(JobsOf(u)))
    /\ [][\A j \in DOMAIN jobs :
              jobs[j].pc = "done" => jobs'[j] = jobs[j] /\ log'[j] = log[j]]_vars

\* The job of user 1 failed at login and ended; the job of user 2 ran to its
\* end afterwards, and user 1 had no second attempt.
C33_Witness ==
    /\ Len(jobs) = 2
    /\ FailedWhole(1)
    /\ \E i \in DOMAIN log[1] : log[1][i].op = "LOGIN" /\ ~log[1][i].ok
    /\ jobs[2].pc = "done" /\ jobs[2].committed
    /\ Cardinality(ConnectAttempts(1)) = 1

\* The uids INBOX held when call i had returned: those the next call on the
\* same folder found, or those it holds now.
HeldAfter(i) ==
    LET later == {k \in DOMAIN calls : k > i /\ calls[k].user = calls[i].user}
    IN IF later = {} THEN DOMAIN inbox[calls[i].user]
       ELSE calls[CHOOSE k \in later : \A n \in later : k <= n].held

\* C34: move_email(id, INBOX, Spam) removes only id from INBOX: every other
\* message INBOX held when the call began, one already flagged \Deleted
\* included, is still in INBOX when it has returned.
C34_MoveRemovesOnlyTarget ==
    \A i \in DOMAIN calls :
        calls[i].op = "move_email"
            => (calls[i].held \ {calls[i].id}) \subseteq HeldAfter(i)

\* A completed move of one message after which another message, which
\* carried \Deleted before the call, is gone from INBOX.
C34_FlaggedExpunged ==
    \E i \in DOMAIN calls : \E m \in calls[i].flagged \ {calls[i].id} :
        /\ calls[i].op = "move_email"
        /\ calls[i].present
        /\ calls[i].failAt = "ok"
        /\ m \notin HeldAfter(i)

\* C34 (what does hold): the other messages that did not carry \Deleted
\* are still in INBOX after the move.
C34_UnflaggedKept ==
    \A i \in DOMAIN calls :
        calls[i].op = "move_email"
            => (calls[i].held \ (calls[i].flagged \cup {calls[i].id})) \subseteq HeldAfter(i)

\* C35: a move_email whose copy raises leaves both folders as they were (the
\* message still in INBOX with the flags it had, nothing flagged, nothing
\* expunged, nothing copied) and raises to its caller.
C35_CopyFailureLeavesSource ==
    [][\A u \in UserIds, m \in Msgs :
          MoveEmailCall(u, m, "copy")
              => /\ inbox' = inbox
                 /\ spam' = spam
                 /\ ~calls'[Len(calls')].ok]_vars

\* A move of an unflagged message of INBOX raised at its copy: the message
\* is in INBOX, unflagged, Spam has no copy, and the call did not return.
C35_Witness ==
    /\ Len(calls) = 1
    /\ calls[1].op = "move_email"
    /\ calls[1].failAt = "copy"
    /\ ~calls[1].ok
    /\ calls[1].present
    /\ calls[1].id \notin calls[1].flagged
    /\ calls[1].id \in DOMAIN inbox[calls[1].user]
    /\ ~inbox[calls[1].user][calls[1].id].deleted
    /\ spam[calls[1].user][calls[1].id] = 0

\* Message m of the INBOX of user u is unread and not spam.
UnreadHam(u, m) ==
    /\ m \in DOMAIN inbox[u]
    /\ ~inbox[u][m].seen
    /\ ~predict_with_confidence(inbox[u][m].text)[1]

\* Job j published a new_email event for message m.
Reported(j, m) ==
    \E i \in EventsFor(j, m) : log[j][i].arg = "new_email"

DeletesFromTrash(m) ==
    /\ m \in DOMAIN trash
    /\ \E failAt \in FailPoints, fallbackFailAt \in FailPoints :
           SessionDeleteEmail("Trash", m, failAt, fallbackFailAt)
    /\ calls'[Len(calls')].error = "none"

\* C37: delete_email of a message that is in Trash removes it for good: when
\* the call has returned without error, Trash holds no copy of the message.
C37_DeleteFromTrashIsPermanent ==
    [][\A m \in Msgs :
          DeletesFromTrash(m)
              => \A x \in DOMAIN trash' : trash'[x].of # trash[m].of]_vars

\* A message was deleted from INBOX, which moved it to Trash, and then
\* deleted from Trash; the second call returned without error and without
\* its fallback, and Trash holds a copy of the message under a new uid.
C37_CopyLeftInTrash ==
    /\ Len(calls) = 2
    /\ calls[1].op = "delete_email" /\ calls[1].folder = "INBOX"
    /\ calls[1].present /\ calls[1].error = "none" /\ ~calls[1].fallback
    /\ calls[2].op = "delete_email" /\ calls[2].folder = "Trash"
    /\ calls[2].present /\ calls[2].error = "none" /\ ~calls[2].fallback
    /\ calls[2].id \notin DOMAIN trash
    /\ \E x \in DOMAIN trash : trash[x].of = calls[1].id /\ ~trash[x].deleted

\* C37 (what does hold): the uid that was deleted is gone from Trash, and
\* no copy of the message is left when the copy of the move did not go
\* through.
C37_UidGoneFromTrash ==
    [][\A m \in Msgs :
          DeletesFromTrash(m)
              => /\ m \notin DOMAIN trash'
                 /\ (\A k \in DOMAIN session'.issued :
                        (k > Len(session.issued) /\ session'.issued[k].name = "COPY")
                            => ~session'.issued[k].ok)
                        => \A x \in DOMAIN trash' : trash'[x].of # trash[m].of]_vars

\* The unread listing of job j raised.
ListingFailed(j) ==
    \E i \in DOMAIN log[j] : log[j][i].op = "SEARCH" /\ ~log[j][i].ok

\* C38: when the unread listing raises after the session opened, the job
\* ends there: it makes exactly one publish call, for an error event
\* without email_id on the user's channel (the event is on the channel
\* unless Redis refused it); it fetches, classifies and moves nothing; it
\* logs out, after the listing and before the publish call; last_sync_time
\* is as it was.
C38_ListingFailureEndsJob ==
    \A j \in DOMAIN jobs :
        ListingFailed(j) =>
            LET pubs == PublishCalls(j)
                cmds == MailCommands(j)
            IN /\ jobs[j].pc = "done"
               /\ Len(pubs) = 1
               /\ pubs[1].arg = "error" /\ pubs[1].id = 0
               /\ published[PublishChannel(jobs[j].uid)] =
                      (IF pubs[1].ok THEN <<JobError(jobs[j].uid)>> ELSE <<>>)
               /\ \A i \in DOMAIN log[j] :
                      log[j][i].op \notin {"FETCH", "CLASSIFY", "COPY", "STORE", "EXPUNGE"}
               /\ jobs[j].listed = <<>>
               /\ jobs[j].conn = "closed"
               /\ cmds[Len(cmds)].op = "LOGOUT"
               /\ log[j][Len(log[j])] = pubs[1]
               /\ ~jobs[j].committed
               /\ LastSyncUntouched(j)

\* The session opened, the listing raised, the job logged out and its error
\* event reached the channel.
C38_Witness ==
    \E j \in DOMAIN jobs :
        /\ ListingFailed(j)
        /\ \E i \in DOMAIN log[j] : log[j][i].op = "LOGIN" /\ log[j][i].ok
        /\ jobs[j].conn = "closed"
        /\ published[PublishChannel(jobs[j].uid)] = <<JobError(jobs[j].uid)>>

\* A command or call of job j raised that is not handled within the loop
\* over the messages: the query, the setup, connect, login, the listing, the
\* commit, or the publish call for an error event.
AbortingFailure(j) ==
    \E i \in DOMAIN log[j] :
        /\ ~log[j][i].ok
        /\ \/ log[j][i].op \in {"QUERY", "SETUP", "CONNECT", "LOGIN", "SEARCH", "COMMIT"}
           \/ IsPublish(log[j][i]) /\ log[j][i].arg = "error"

\* C39: monitor_user_emails never ends by an exception: whatever raises
\* (the query of the user, decryption or the classifier, connect or login,
\* the listing, the processing of a message, a publish call, the commit),
\* the task returns, and when it has returned its database session is
\* closed.
C39_TaskNeverRaises ==
    \A j \in DOMAIN jobs :
        /\ ~jobs[j].raised
        /\ jobs[j].pc = "done" => jobs[j].db = "closed"
        /\ jobs[j].pc \in {"connect", "list", "process"} => jobs[j].db = "open"
        /\ AbortingFailure(j) => jobs[j].pc = "done"

\* The commit raised and so did the publish call of the handler; the task
\* returned and its database session is closed.
C39_Witness ==
    \E j \in DOMAIN jobs :
        /\ jobs[j].pc = "done"
        /\ \E i \in DOMAIN log[j] : log[j][i].op = "COMMIT" /\ ~log[j][i].ok
        /\ log[j][Len(log[j])] = Pub(JobError(jobs[j].uid), FALSE)
        /\ jobs[j].db = "closed"
        /\ ~jobs[j].raised
        /\ ~jobs[j].committed

\* Stream s is open: its generator has subscribed and has not been left.
StreamOpen(s) == streams[s].pc \in {"subscribed", "listening"}

\* C40: is_monitoring is tested when a stream is opened and never again:
\* the logout of a user changes nothing of any stream; an open stream of a
\* user who is no longer monitoring is still subscribed to the user's
\* channel, every event published for the user is put on its connection, and
\* what it has yielded and holds to yield is exactly what was published
\* since it subscribed; it ends only by the disconnect of its client (or by
\* an error of its Redis connection).
C40_StreamOutlivesMonitoring ==
    /\ [](\A s \in DOMAIN streams :
             (StreamOpen(s) /\ ~users[streams[s].uid].is_monitoring) =>
                 /\ streams[s].subscribed
                 /\ streams[s].channel = PublishChannel(streams[s].uid)
                 /\ Emitted(s) \o Buffered(s) =
                        SubSeq(published[streams[s].channel],
                               streams[s].subAt[streams[s].channel] + 1,
                               Len(published[streams[s].channel])))
    /\ [][/\ (\E u \in UserIds : LogoutRequest(u)) => streams' = streams
          /\ \A s \in DOMAIN streams :
                 (StreamOpen(s) /\ ~StreamOpen(s)') =>
                     StreamDisconnect(s) \/ StreamError(s)]_vars

\* A stream opened while its user was monitoring has yielded an event that
\* was published after the user had logged out.
C40_Witness ==
    \E s \in DOMAIN streams :
        /\ calls # <<>>
        /\ calls[1].op = "POST /auth/logout"
        /\ calls[1].user = streams[s].uid
        /\ ~users[streams[s].uid].is_monitoring
        /\ streams[s].pc = "listening"
        /\ streams[s].subAt[streams[s].channel] + Len(Emitted(s)) > calls[1].events

====
